---------------------------- MODULE Spec2Model ----------------------------
(***************************************************************************)
(* Verification model of tracker-deps-odoo: the incremental ETL pipeline   *)
(* that scans Odoo modules, parses models and views, organizes them into   *)
(* a node / relationship dataset and loads it into Neo4j in batches.       *)
(*                                                                         *)
(* Nine specifications share the definitions below:                        *)
(*   SpecLoader    Neo4jLoader.load_organized_data, one batch per step     *)
(*   SpecInc       StateManager / ChangeDetector used as a library         *)
(*   SpecStrategy  ChangeDetector.get_incremental_strategy on module lists *)
(*   Spec          the `load` command of cli.py, run after run             *)
(*   SpecParse     the worker pool of `load`, one future per step          *)
(*   SpecTransform parse and organize one models.py, then load it          *)
(*   SpecScan      ModuleScanner.scan, one directory per step              *)
(*   SpecStep4     step 4 of `load`: schema, clear, batches                *)
(*   SpecSelect    one `load` on four modules with a previous state        *)
(***************************************************************************)
EXTENDS Integers, Sequences, FiniteSets, TLC

VARIABLES
    graph,        \* the Neo4j store: node tables per label and the edge table
    data,         \* the organized dataset handed to load_organized_data
    pos,          \* loader position: [k |-> sub-step, b |-> batch] while loading
    lpc,          \* loader control state: "idle" | "loading" | "done"
    loadNo,       \* number of load_organized_data calls started
    metrics,      \* Neo4jLoader.metrics
    log,          \* batches attempted in the current call, in order
    snap,         \* graph at the end of the previous call and at the start of this one
    nfail,        \* batch failures injected so far
    disk,         \* the file system: path -> file state
    stateFile,    \* .cache/state.json as persisted
    mem,          \* StateManager.state of the live StateManager
    modules,      \* the module list of the current run / call
    strategy,     \* last result of get_incremental_strategy
    now,          \* the wall clock (datetime.now()), a counter
    pc,           \* position of the `load` command
    run,          \* per-run locals and history of the `load` command
    pool          \* the parse workers' futures and the lists they are drained into

vars == <<graph, data, pos, lpc, loadNo, metrics, log, snap, nfail,
          disk, stateFile, mem, modules, strategy, now, pc, run, pool>>

loaderVars == <<graph, data, pos, lpc, loadNo, metrics, log, snap, nfail>>
stateVars  == <<disk, stateFile, mem, modules, strategy, now>>
cliVars    == <<pc, run, pool>>

(***************************************************************************)
(* Bounds of the model.                                                    *)
(***************************************************************************)
BATCH_SIZE == 2          \* Config.BATCH_SIZE (BATCH_SIZE env var), scaled down
MaxFail == 1             \* batch failures injected per behaviour
MaxLoads == 2            \* successive load_organized_data calls per behaviour

(***************************************************************************)
(* Python values.                                                          *)
(***************************************************************************)
None == "<None>"
Falsy(x) == x \in {None, ""}

EmptyFn == [x \in {} |-> 0]

Min(a, b) == IF a < b THEN a ELSE b

\* s[i:j] of Python for 0-based i, j within range handling as slices do
Slice(s, i, j) == SubSeq(s, i + 1, Min(j, Len(s)))

RECURSIVE Concat(_)
Concat(ss) == IF ss = <<>> THEN <<>> ELSE Head(ss) \o Concat(Tail(ss))

Range(s) == {s[i] : i \in DOMAIN s}


(***************************************************************************)
(* The graph store.  A node table maps an identity key (a tuple) to        *)
(* [props, n]: props is <<>> for a node that carries only its key, or      *)
(* <<r>> with r the record of attributes SET on it; n is the number of     *)
(* nodes with that key.  The edge table maps [type, src, dst] to           *)
(* [props, n] in the same way.                                             *)
(***************************************************************************)
EmptyGraph ==
    [modules |-> EmptyFn, models |-> EmptyFn, views |-> EmptyFn,
     fields |-> EmptyFn, edges |-> EmptyFn]

NodeCount(tbl, key) == IF key \in DOMAIN tbl THEN tbl[key].n ELSE 0

\* A variant of MergeNode that writes like CREATE: a node is added every time.
MergeNodeCreate(tbl, key) ==
    IF key \in DOMAIN tbl
    THEN [tbl EXCEPT ![key].n = @ + 1]
    ELSE tbl @@ (key :> [props |-> <<>>, n |-> 1])

\* MERGE (x:Label {key}): match on identity, create if absent.
MergeNode(tbl, key) ==
    IF key \in DOMAIN tbl
    THEN tbl
    ELSE tbl @@ (key :> [props |-> <<>>, n |-> 1])

\* MERGE (x:Label {key}) SET x.a = ..., x.b = ...: every attribute of the
\* SET list is overwritten from the row.
Upsert(tbl, key, p) ==
    [MergeNode(tbl, key) EXCEPT ![key].props = <<p>>]

\* A variant of MergeEdge that writes like CREATE.
MergeEdgeCreate(edges, type, src, dst, pairs) ==
    LET e == [type |-> type, src |-> src, dst |-> dst]
    IN  IF pairs = 0 THEN edges
        ELSE IF e \in DOMAIN edges
             THEN [edges EXCEPT ![e].n = @ + pairs]
             ELSE edges @@ (e :> [props |-> <<>>, n |-> pairs])

\* MERGE (a)-[:TYPE]->(b) for the `pairs` bound (a, b) combinations:
\* create the edge if absent.
MergeEdge(edges, type, src, dst, pairs) ==
    LET e == [type |-> type, src |-> src, dst |-> dst]
    IN  IF pairs = 0 \/ e \in DOMAIN edges
        THEN edges
        ELSE edges @@ (e :> [props |-> <<>>, n |-> pairs])

\* MERGE (a)-[r:TYPE]->(b) SET r.field = f
MergeEdgeSet(edges, type, src, dst, pairs, f) ==
    LET e == [type |-> type, src |-> src, dst |-> dst]
    IN  IF pairs = 0 THEN edges
        ELSE [MergeEdge(edges, type, src, dst, pairs) EXCEPT ![e].props = <<f>>]

\* A variant of ClearGraph that deletes nothing.
ClearGraphNone(g) == g

\* MATCH (n) DETACH DELETE n
ClearGraph(g) == EmptyGraph

RECURSIVE SumN(_, _)
SumN(tbl, keys) ==
    IF keys = {} THEN 0
    ELSE LET k == CHOOSE x \in keys : TRUE
         IN  tbl[k].n + SumN(tbl, keys \ {k})

\* get_stats: MATCH (n:Label) RETURN count(n), per label
GetStats(g) ==
    [modules |-> SumN(g.modules, DOMAIN g.modules),
     models |-> SumN(g.models, DOMAIN g.models),
     views |-> SumN(g.views, DOMAIN g.views),
     fields |-> SumN(g.fields, DOMAIN g.fields)]

\* the number of relationships in the store
EdgeCount(g) == SumN(g.edges, DOMAIN g.edges)

(***************************************************************************)
(* Node attributes written by the SET lists of load_organized_data.  The   *)
(* module row's description, author, category, installable, auto_install   *)
(* and the model / view rows' description, file_path, name, priority are   *)
(* copied from the row exactly like the attributes kept here.              *)
(***************************************************************************)
ModuleProps(r) == [version |-> r.version, path |-> r.path]

ModelProps(r) ==
    [module |-> r.module, class_name |-> r.class_name,
     model_type |-> r.model_type, is_abstract |-> r.is_abstract,
     is_extension |-> r.is_extension, is_transient |-> r.is_transient]

ViewProps(r) == [model |-> r.model, view_type |-> r.view_type, module |-> r.module]

FieldProps(r) == [field_type |-> r.field_type, attributes |-> r.attributes]

\* json.dumps(d) of a dict given as its items in insertion order: the keys
\* are written in that order (no sort_keys).
RECURSIVE JsonItems(_)
JsonItems(items) ==
    IF items = <<>> THEN <<>>
    ELSE <<Head(items)[1], ":", Head(items)[2]>>
         \o (IF Len(items) > 1 THEN <<",">> ELSE <<>>)
         \o JsonItems(Tail(items))

JsonDumps(items) == <<"{">> \o JsonItems(items) \o <<"}">>

\* A variant of ParseClass that keeps the declared _name as the name.
ParseClassDeclaredName(c, module_name) ==
    [name |-> c.name,
     inherits |-> c.inherit,
     inherits_models |-> c.inherits,
     fields |-> c.fields,
     module |-> module_name,
     class_name |-> c.class_name,
     is_abstract |-> (c.name = None),
     is_extension |-> (c.inherit # <<>> /\ Falsy(c.name)),
     is_transient |-> (c.transient \/ c.base = "TransientModel")]

(***************************************************************************)
(* ModelParser._parse_class.  A class declaration is given by what the     *)
(* AST walk reads from it: the class name, the models.<base> it extends,   *)
(* and the literal values of _name, _inherit (already a list), _inherits   *)
(* (its items in order), _transient and the fields.<Type>(...) fields.     *)
(***************************************************************************)
ParseClass(c, module_name) ==
    LET name == c.name
        inherits == c.inherit
        is_transient == c.transient \/ c.base = "TransientModel"
        is_extension == inherits # <<>> /\ Falsy(name)
        effective_name ==
            IF is_extension /\ Len(inherits) = 1 THEN inherits[1] ELSE name
    IN  [name |-> effective_name,
         inherits |-> inherits,
         inherits_models |-> c.inherits,
         fields |-> c.fields,
         module |-> module_name,
         class_name |-> c.class_name,
         is_abstract |-> (name = None),
         is_extension |-> is_extension,
         is_transient |-> is_transient]

\* parse_module(module): the model dicts and the view dicts of one module
ParseModels(classes, module_name) ==
    [i \in DOMAIN classes |-> ParseClass(classes[i], module_name)]

(***************************************************************************)
(* organize_data_for_loading(modules, all_models, all_views)               *)
(***************************************************************************)
ModelType(model) ==
    IF model.is_transient THEN "transient"
    ELSE IF Falsy(model.name) THEN "mixin"
    ELSE IF model.inherits # <<>> /\ model.name \in Range(model.inherits)
         THEN "extension"
    ELSE IF model.inherits # <<>> THEN "redefined"
    ELSE "base"

ModuleDeps(m) == [i \in DOMAIN m.depends |-> [from |-> m.name, to |-> m.depends[i]]]

NamedModels(all_models) == SelectSeq(all_models, LAMBDA m : ~Falsy(m.name))

ModelNode(m) ==
    [name |-> m.name, module |-> m.module, class_name |-> m.class_name,
     model_type |-> ModelType(m), is_abstract |-> m.is_abstract,
     is_extension |-> m.is_extension, is_transient |-> m.is_transient]

\* A variant of ModelInheritances that leaves out a record whose parent is
\* the entity itself.
ModelInheritancesNoSelf(m) ==
    LET ps == SelectSeq(m.inherits, LAMBDA x : x /= m.name)
    IN  [i \in DOMAIN ps |-> [child |-> m.name, parent |-> ps[i]]]

ModelInheritances(m) ==
    [i \in DOMAIN m.inherits |-> [child |-> m.name, parent |-> m.inherits[i]]]

ModelDelegations(m) ==
    [i \in DOMAIN m.inherits_models |->
        [child |-> m.name, parent |-> m.inherits_models[i][1],
         field |-> m.inherits_models[i][2]]]

NamedFields(m) == SelectSeq(m.fields, LAMBDA f : ~Falsy(f.name))

FieldNodes(m) ==
    LET fs == NamedFields(m)
    IN  [i \in DOMAIN fs |->
            [model_name |-> m.name, field_name |-> fs[i].name,
             field_type |-> fs[i].field_type,
             related_model |-> fs[i].related_model,
             attributes |-> fs[i].attributes]]

FieldModelRels(m) ==
    LET fs == NamedFields(m)
    IN  [i \in DOMAIN fs |-> [field_name |-> fs[i].name, model_name |-> m.name]]

FieldReferences(m) ==
    LET fs == SelectSeq(NamedFields(m), LAMBDA f : ~Falsy(f.related_model))
    IN  [i \in DOMAIN fs |->
            [field_name |-> fs[i].name, model_name |-> m.name,
             related_model |-> fs[i].related_model]]

KeptViews(all_views) ==
    SelectSeq(all_views, LAMBDA v : ~Falsy(v.xml_id) /\ ~Falsy(v.model))

ViewNode(v) ==
    [xml_id |-> v.xml_id, model |-> v.model, view_type |-> v.view_type,
     module |-> v.module]

MapSeq(s, Op(_)) == [i \in DOMAIN s |-> Op(s[i])]

Organize(mods, all_models, all_views) ==
    LET ms == NamedModels(all_models)
        vs == KeptViews(all_views)
        inh == SelectSeq(vs, LAMBDA v : ~Falsy(v.inherit_id))
    IN  [modules |-> mods,
         models |-> MapSeq(ms, ModelNode),
         views |-> MapSeq(vs, ViewNode),
         fields |-> Concat(MapSeq(ms, FieldNodes)),
         module_dependencies |-> Concat(MapSeq(mods, ModuleDeps)),
         model_module_rels |->
            [i \in DOMAIN ms |-> [model |-> ms[i].name, module |-> ms[i].module]],
         model_inheritances |-> Concat(MapSeq(ms, ModelInheritances)),
         model_delegations |-> Concat(MapSeq(ms, ModelDelegations)),
         field_model_rels |-> Concat(MapSeq(ms, FieldModelRels)),
         field_references |-> Concat(MapSeq(ms, FieldReferences)),
         view_module_rels |->
            [i \in DOMAIN vs |-> [view_xml_id |-> vs[i].xml_id, module |-> vs[i].module]],
         view_model_rels |->
            [i \in DOMAIN vs |-> [view_xml_id |-> vs[i].xml_id, model |-> vs[i].model]],
         view_inheritances |->
            [i \in DOMAIN inh |-> [child |-> inh[i].xml_id, parent |-> inh[i].inherit_id]]]

(***************************************************************************)
(* Neo4jLoader.load_organized_data: thirteen sub-steps, each a Cypher      *)
(* query run by _batch_execute over one list of the dataset.               *)
(***************************************************************************)
SubSteps == 1..13
Phase1 == 1..4

\* the fields rows with attributes converted to JSON
FieldsWithJson(fields) ==
    [i \in DOMAIN fields |->
        [fields[i] EXCEPT !.attributes = JsonDumps(fields[i].attributes)]]

SubStepData(d, k) ==
    CASE k = 1 -> d.modules
      [] k = 2 -> d.models
      [] k = 3 -> d.views
      [] k = 4 -> FieldsWithJson(d.fields)
      [] k = 5 -> d.module_dependencies
      [] k = 6 -> d.model_module_rels
      [] k = 7 -> d.model_inheritances
      [] k = 8 -> d.model_delegations
      [] k = 9 -> d.field_model_rels
      [] k = 10 -> d.field_references
      [] k = 11 -> d.view_module_rels
      [] k = 12 -> d.view_model_rels
      [] k = 13 -> d.view_inheritances

\* One row of the UNWIND of sub-step k.  g0 is the graph the batch's
\* transaction started from: the MATCH clauses of a query read it, the MERGE
\* clauses act row after row on g.
ApplyRow(g, g0, k, r) ==
    CASE k = 1 -> [g EXCEPT !.modules = Upsert(@, <<r.name>>, ModuleProps(r))]
      [] k = 2 -> [g EXCEPT !.models = Upsert(@, <<r.name>>, ModelProps(r))]
      [] k = 3 -> [g EXCEPT !.views = Upsert(@, <<r.xml_id>>, ViewProps(r))]
      [] k = 4 -> [g EXCEPT !.fields =
                      Upsert(@, <<r.model_name, r.field_name>>, FieldProps(r))]
      [] k = 5 ->
            [g EXCEPT !.edges = MergeEdge(@, "DEPENDS_ON", <<r.from>>, <<r.to>>,
                NodeCount(g0.modules, <<r.from>>) * NodeCount(g0.modules, <<r.to>>))]
      [] k = 6 ->
            [g EXCEPT !.edges = MergeEdge(@, "CONTAINS_MODEL", <<r.module>>, <<r.model>>,
                NodeCount(g0.models, <<r.model>>) * NodeCount(g0.modules, <<r.module>>))]
      [] k = 7 ->
            IF NodeCount(g0.models, <<r.child>>) = 0 THEN g
            ELSE LET g1 == [g EXCEPT !.models = MergeNode(@, <<r.parent>>)]
                 IN  [g1 EXCEPT !.edges = MergeEdge(@, "INHERITS", <<r.child>>, <<r.parent>>,
                        NodeCount(g0.models, <<r.child>>) * NodeCount(g1.models, <<r.parent>>))]
      [] k = 8 ->
            IF NodeCount(g0.models, <<r.child>>) = 0 THEN g
            ELSE LET g1 == [g EXCEPT !.models = MergeNode(@, <<r.parent>>)]
                 IN  [g1 EXCEPT !.edges =
                        MergeEdgeSet(@, "INHERITS_DELEGATION", <<r.child>>, <<r.parent>>,
                            NodeCount(g0.models, <<r.child>>) * NodeCount(g1.models, <<r.parent>>),
                            r.field)]
      [] k = 9 ->
            [g EXCEPT !.edges =
                MergeEdge(@, "HAS_FIELD", <<r.model_name>>, <<r.model_name, r.field_name>>,
                    NodeCount(g0.models, <<r.model_name>>)
                    * NodeCount(g0.fields, <<r.model_name, r.field_name>>))]
      [] k = 10 ->
            IF NodeCount(g0.fields, <<r.model_name, r.field_name>>) = 0 THEN g
            ELSE LET g1 == [g EXCEPT !.models = MergeNode(@, <<r.related_model>>)]
                 IN  [g1 EXCEPT !.edges =
                        MergeEdge(@, "RELATES_TO", <<r.model_name, r.field_name>>,
                            <<r.related_model>>,
                            NodeCount(g0.fields, <<r.model_name, r.field_name>>)
                            * NodeCount(g1.models, <<r.related_model>>))]
      [] k = 11 ->
            [g EXCEPT !.edges = MergeEdge(@, "CONTAINS_VIEW", <<r.module>>, <<r.view_xml_id>>,
                NodeCount(g0.views, <<r.view_xml_id>>) * NodeCount(g0.modules, <<r.module>>))]
      [] k = 12 ->
            [g EXCEPT !.edges = MergeEdge(@, "VIEW_FOR", <<r.view_xml_id>>, <<r.model>>,
                NodeCount(g0.views, <<r.view_xml_id>>) * NodeCount(g0.models, <<r.model>>))]
      [] k = 13 ->
            IF NodeCount(g0.views, <<r.child>>) = 0 THEN g
            ELSE LET g1 == [g EXCEPT !.views = MergeNode(@, <<r.parent>>)]
                 IN  [g1 EXCEPT !.edges = MergeEdge(@, "EXTENDS", <<r.child>>, <<r.parent>>,
                        NodeCount(g0.views, <<r.child>>) * NodeCount(g1.views, <<r.parent>>))]

RECURSIVE FoldRows(_, _, _, _)
FoldRows(g, g0, k, rows) ==
    IF rows = <<>> THEN g
    ELSE FoldRows(ApplyRow(g, g0, k, Head(rows)), g0, k, Tail(rows))

\* tx.run(query, {param_name: batch}); tx.commit()
ApplyBatch(g, k, batch) == FoldRows(g, g, k, batch)

(***************************************************************************)
(* Neo4jLoader._batch_execute: the slices of the list                      *)
(***************************************************************************)
NumBatches(n) == (n + BATCH_SIZE - 1) \div BATCH_SIZE

\* A variant of BatchOf whose slices after the first start one item early.
BatchOfOverlap(rows, b) ==
    Slice(rows, (b - 1) * BATCH_SIZE - (IF b > 1 THEN 1 ELSE 0), b * BATCH_SIZE)

\* batch number b (from 1): data[i : i + batch_size] with i = (b-1)*batch_size
BatchOf(rows, b) == Slice(rows, (b - 1) * BATCH_SIZE, b * BATCH_SIZE)

\* A variant of RunBatches that stops the sub-step at the first failed batch.
RECURSIVE RunBatchesAbort(_, _, _, _, _)
RunBatchesAbort(g, d, k, b, failed) ==
    IF b > NumBatches(Len(SubStepData(d, k))) THEN g
    ELSE IF <<k, b>> \in failed THEN g
    ELSE RunBatchesAbort(ApplyBatch(g, k, BatchOf(SubStepData(d, k), b)),
                         d, k, b + 1, failed)

\* the batches of sub-step k from batch b on; those in `failed` raise and
\* leave the graph as it was, the next batch is attempted all the same
RECURSIVE RunBatches(_, _, _, _, _)
RunBatches(g, d, k, b, failed) ==
    IF b > NumBatches(Len(SubStepData(d, k))) THEN g
    ELSE RunBatches(IF <<k, b>> \in failed THEN g
                    ELSE ApplyBatch(g, k, BatchOf(SubStepData(d, k), b)),
                    d, k, b + 1, failed)

RECURSIVE RunSubSteps(_, _, _, _)
RunSubSteps(g, d, k, failed) ==
    IF k \notin SubSteps THEN g
    ELSE RunSubSteps(RunBatches(g, d, k, 1, failed), d, k + 1, failed)

\* load_organized_data(data) as a whole, given the batches that fail
LoadOrganizedData(g, d, failed) == RunSubSteps(g, d, 1, failed)

\* every batch the call attempts, as <<k, b>>
AllBatches(d) ==
    UNION {{<<k, b>> : b \in 1..NumBatches(Len(SubStepData(d, k)))} : k \in SubSteps}

\* the first sub-step from k on that has rows (a sub-step without rows issues
\* no batch), 0 when there is none
NextSubStep(d, k) ==
    LET ks == {j \in SubSteps : j >= k /\ Len(SubStepData(d, j)) > 0}
    IN  IF ks = {} THEN 0 ELSE CHOOSE j \in ks : \A i \in ks : j <= i

(***************************************************************************)
(* Inputs of the loader specification: scanned modules, class declarations *)
(* and view records, organized by organize_data_for_loading.               *)
(***************************************************************************)
Mod(name, ver, deps) ==
    [name |-> name, path |-> <<"addons", name>>, version |-> ver, depends |-> deps]

Fld(name, type, related, attrs) ==
    [name |-> name, field_type |-> type, related_model |-> related,
     attributes |-> attrs]

Cls(cname, base, name, inherit, inherits, transient, fields) ==
    [class_name |-> cname, base |-> base, name |-> name, inherit |-> inherit,
     inherits |-> inherits, transient |-> transient, fields |-> fields]

View(xml_id, model, inherit_id, module) ==
    [xml_id |-> xml_id, model |-> model, view_type |-> "form",
     inherit_id |-> inherit_id, module |-> module]

DepNames == {"m1", "m2", "ext"}

DepLists ==
    {<<>>} \cup {<<d>> : d \in DepNames} \cup {<<d, e>> : d \in DepNames, e \in DepNames}

\* module lists: m1 alone or m1 and m2, with every dependency list; no
\* module at all; and five modules, so that a sub-step has three batches
ModuleLists ==
    {<<>>}
    \cup {<<Mod("m1", "1.0", d1)>> : d1 \in DepLists}
    \cup {<<Mod("m1", "1.0", d1), Mod("m2", "1.0", d2)>> :
            d1 \in DepLists, d2 \in {<<>>, <<"m1", "ext">>}}
    \cup {<<Mod("m1", "1.0", <<>>), Mod("m2", "1.0", <<"m1">>),
            Mod("m3", "1.0", <<"m1", "m2">>), Mod("m4", "1.0", <<"ext">>),
            Mod("m5", "1.0", <<"m4", "m4">>)>>}

BaseModules == <<Mod("m1", "1.0", <<"m2">>), Mod("m2", "1.0", <<>>)>>

\* class declarations, as (declaration, declaring module)
ClassA   == <<Cls("A", "Model", "a", <<>>, <<>>, FALSE,
                  <<Fld("name", "Char", None, <<>>)>>), "m1">>
ClassExt == <<Cls("AExt", "Model", None, <<"a">>, <<>>, FALSE,
                  <<Fld("vat", "Char", None, <<<<"size", "8">>>>)>>), "m2">>
ClassMissing == <<Cls("M", "Model", None, <<"missing.parent">>, <<>>, FALSE, <<>>), "m1">>
ClassB   == <<Cls("B", "Model", "b", <<"a">>, <<<<"p", "p_id">>>>, FALSE,
                  <<Fld("p_id", "Many2one", "p",
                        <<<<"required", "true">>, <<"string", "P">>>>),
                    Fld("a_id", "Many2one", "a", <<>>)>>), "m1">>
ClassMixin == <<Cls("Mix", "AbstractModel", None, <<"a", "p">>, <<>>, FALSE,
                    <<Fld("f", "Char", None, <<>>)>>), "m1">>
ClassA2  == <<Cls("Wiz", "TransientModel", "a", <<>>, <<>>, FALSE,
                  <<Fld("name", "Text", None, <<>>)>>), "m2">>
ClassDup == <<Cls("B2", "Model", "b", <<"a", "a">>, <<<<"p", "q_id">>>>, FALSE,
                  <<Fld("rel", "Many2many", "b", <<>>)>>), "m2">>

ClassDecls == {ClassA, ClassExt, ClassMissing, ClassB, ClassMixin, ClassA2, ClassDup}

ClassLists ==
    {<<>>} \cup {<<c>> : c \in ClassDecls}
    \cup {<<c1, c2>> : c1 \in {ClassA, ClassB}, c2 \in ClassDecls}

ViewLists ==
    {<<>>,
     <<View("m1.v1", "a", None, "m1")>>,
     <<View("m1.v1", "a", None, "m1"), View("m2.v2", "q", "m1.v1", "m2")>>,
     <<View("m1.v3", None, None, "m1"), View("m1.v4", "b", "x.missing", "m1")>>}

ParsedModels(cl) == [i \in DOMAIN cl |-> ParseClass(cl[i][1], cl[i][2])]

\* one module m1 whose only class has no _name and _inherit = 'missing.parent'
UnknownParentCorpus ==
    [modules |-> <<Mod("m1", "1.0", <<>>)>>,
     models |-> ParsedModels(<<ClassMissing>>), views |-> <<>>]

\* a corpus in which every identity occurs twice: two directories named m1,
\* two classes named 'a' with a field `name`, two view records m1.v1
DuplicateCorpus ==
    [modules |-> <<Mod("m1", "1.0", <<>>), Mod("m1", "2.0", <<"m1">>)>>,
     models |-> ParsedModels(<<ClassA, ClassA2>>),
     views |-> <<View("m1.v1", "a", None, "m1"), View("m1.v1", "a", "m1.v1", "m1")>>]

Corpora ==
    {[modules |-> ml, models |-> <<>>, views |-> <<>>] : ml \in ModuleLists}
    \cup {UnknownParentCorpus, DuplicateCorpus}
    \cup {[modules |-> BaseModules, models |-> ParsedModels(cl), views |-> vl] :
            cl \in ClassLists, vl \in ViewLists}

Datasets == {Organize(c.modules, c.models, c.views) : c \in Corpora}

\* the graph a load starts from: empty, or left by an earlier load of
\* another corpus
SeedData ==
    Organize(<<Mod("m1", "0.9", <<"ext">>), Mod("ext", "1.0", <<>>)>>,
             ParsedModels(<<
                <<Cls("P", "Model", "p", <<>>, <<>>, FALSE, <<>>), "ext">>,
                <<Cls("OldA", "Model", "a", <<"p">>, <<>>, TRUE,
                      <<Fld("name", "Char", None, <<>>)>>), "ext">> >>),
             <<View("m1.v1", "p", None, "m1")>>)

StartGraphs == {EmptyGraph, LoadOrganizedData(EmptyGraph, SeedData, {})}

(***************************************************************************)
(* SpecLoader: load_organized_data called MaxLoads times on one dataset,   *)
(* one batch transaction per step.                                         *)
(***************************************************************************)
NoPos == [k |-> 0, b |-> 0]

Clean(lg) == \A i \in DOMAIN lg : lg[i].ok

\* A variant of NextPos in which a failed batch ends its sub-step.
NextPosAbort(d, k, b, ok) ==
    IF ok /\ b < NumBatches(Len(SubStepData(d, k))) THEN [k |-> k, b |-> b + 1]
    ELSE LET k2 == NextSubStep(d, k + 1)
         IN  IF k2 = 0 THEN NoPos ELSE [k |-> k2, b |-> 1]

\* position after batch b of sub-step k, which committed (ok) or raised: the
\* except branch ends in `continue`, so both go on to the next batch
NextPos(d, k, b, ok) ==
    IF b < NumBatches(Len(SubStepData(d, k))) THEN [k |-> k, b |-> b + 1]
    ELSE LET k2 == NextSubStep(d, k + 1)
         IN  IF k2 = 0 THEN NoPos ELSE [k |-> k2, b |-> 1]

\* no strategy computed yet
NoStrategy ==
    [valid |-> FALSE, afterClear |-> FALSE,
     res |-> [full_reload |-> FALSE, changed_modules |-> <<>>, reason |-> "none"]]

IdleState ==
    /\ disk = EmptyFn
    /\ stateFile = <<>>
    /\ mem = [last_update |-> 0, files |-> EmptyFn]
    /\ modules = <<>>
    /\ strategy = NoStrategy
    /\ now = 1

\* no `load` command has run
NoRun ==
    [full |-> FALSE, clear |-> FALSE,  \* the options of the command
     to_process |-> <<>>,              \* modules_to_process
     before |-> <<>>,                  \* the state file when the command started
     loaded |-> FALSE,                 \* load_organized_data returned
     wrote |-> FALSE,                  \* it ran at least one batch
     errors |-> 0,                     \* batches that raised
     sameCounts |-> TRUE,              \* node and edge counts as before the load
     outcome |-> "none",               \* "running", then "ok" or "raised"
     prevOk |-> FALSE,                 \* the previous command ended "ok", no
                                       \* batch raised, no file written since
     dirty |-> FALSE,                  \* a file was written since it started
     unreachable |-> FALSE,            \* the graph store could not be reached
     saveFailed |-> FALSE]             \* writing the state file raised

\* no worker pool is open
NoPool ==
    [outcomes |-> <<>>,      \* what parse_module ends in, per submitted module
     futures |-> <<>>,       \* per module: "running", "done" or "collected"
     completed |-> <<>>,     \* the finished futures as_completed has yet to yield
     all_models |-> <<>>,
     all_views |-> <<>>,
     failed |-> <<>>]        \* the modules whose future raised, as reported

IdleCli == pc = "off" /\ run = NoRun /\ pool = NoPool

InitLoader ==
    /\ data \in Datasets
    /\ graph \in StartGraphs
    /\ pos = NoPos
    /\ lpc = "idle"
    /\ loadNo = 0
    /\ metrics = [nodes_created |-> 0, relationships_created |-> 0,
                  errors |-> 0, batches_processed |-> 0]
    /\ log = <<>>
    /\ snap = [valid |-> FALSE, prev |-> EmptyGraph, prevClean |-> FALSE,
               start |-> EmptyGraph]
    /\ nfail = 0
    /\ IdleState
    /\ IdleCli

\* entry of load_organized_data, up to the first batch
StartLoad ==
    /\ lpc \in {"idle", "done"}
    /\ loadNo < MaxLoads
    /\ loadNo' = loadNo + 1
    /\ snap' = [valid |-> (lpc = "done"), prev |-> graph, prevClean |-> Clean(log),
                start |-> graph]
    /\ log' = <<>>
    /\ LET k == NextSubStep(data, 1)
       IN  IF k = 0 THEN lpc' = "done" /\ pos' = NoPos
           ELSE lpc' = "loading" /\ pos' = [k |-> k, b |-> 1]
    /\ UNCHANGED <<graph, data, metrics, nfail>>
    /\ UNCHANGED stateVars
    /\ UNCHANGED cliVars

Advance(ok) ==
    LET p == NextPos(data, pos.k, pos.b, ok)
    IN  /\ pos' = p
        /\ lpc' = IF p = NoPos THEN "done" ELSE "loading"

\* the try branch: the batch's transaction runs and commits
BatchCommit ==
    /\ lpc = "loading"
    /\ LET batch == BatchOf(SubStepData(data, pos.k), pos.b)
       IN  /\ graph' = ApplyBatch(graph, pos.k, batch)
           /\ log' = Append(log, [k |-> pos.k, b |-> pos.b, size |-> Len(batch),
                                  ok |-> TRUE])
    /\ metrics' = [metrics EXCEPT !.batches_processed = @ + 1]
    /\ Advance(TRUE)
    /\ UNCHANGED <<data, loadNo, snap, nfail>>
    /\ UNCHANGED stateVars
    /\ UNCHANGED cliVars

\* the except branch: the transaction raised and is rolled back
BatchFail ==
    /\ lpc = "loading"
    /\ nfail < MaxFail
    /\ nfail' = nfail + 1
    /\ LET batch == BatchOf(SubStepData(data, pos.k), pos.b)
       IN  log' = Append(log, [k |-> pos.k, b |-> pos.b, size |-> Len(batch),
                               ok |-> FALSE])
    /\ metrics' = [metrics EXCEPT !.errors = @ + 1]
    /\ Advance(FALSE)
    /\ UNCHANGED <<graph, data, loadNo, snap>>
    /\ UNCHANGED stateVars
    /\ UNCHANGED cliVars

\* clear_graph between two loads
ClearLoader ==
    /\ lpc = "done"
    /\ graph /= EmptyGraph
    /\ graph' = ClearGraph(graph)
    /\ lpc' = "idle"
    /\ snap' = [snap EXCEPT !.valid = FALSE]
    /\ log' = <<>>
    /\ UNCHANGED <<data, pos, loadNo, metrics, nfail>>
    /\ UNCHANGED stateVars
    /\ UNCHANGED cliVars

NextLoader == StartLoad \/ BatchCommit \/ BatchFail \/ ClearLoader

SpecLoader == InitLoader /\ [][NextLoader]_vars

(***************************************************************************)
(* Properties of the loader                                                *)
(***************************************************************************)
LogOf(k) == SelectSeq(log, LAMBDA e : e.k = k)

FailedIn(lg) == {i \in DOMAIN lg : ~lg[i].ok}

FailedSet == {<<log[i].k, log[i].b>> : i \in FailedIn(log)}

\* every batch of sub-step k was attempted once, in input order
AttemptedInOrder(k) ==
    LET lk == LogOf(k)
    IN  /\ Len(lk) = NumBatches(Len(SubStepData(data, k)))
        /\ \A i \in DOMAIN lk : lk[i].b = i

LoadDone == lpc = "done" /\ loadNo > 0

\* C1: loading the same dataset twice in succession, no batch failing, leaves
\* the nodes (with their attributes and multiplicities) and the edges exactly
\* as the first load left them, whatever graph the first load started from.
C1_Idempotent ==
    (LoadDone /\ snap.valid /\ snap.prevClean /\ Clean(log)) => graph = snap.prev

\* C1 witness: a second clean load has finished on a graph holding edges and a
\* node that carries only its key.
C1_Witness ==
    /\ LoadDone /\ snap.valid /\ snap.prevClean /\ Clean(log)
    /\ Cardinality(DOMAIN graph.edges) >= 4
    /\ \E key \in DOMAIN graph.models : graph.models[key].props = <<>>
    /\ \E key \in DOMAIN graph.models : graph.models[key].props # <<>>

\* C8: when exactly one batch of a sub-step fails, every batch of that
\* sub-step is still attempted in order and all the others commit (N-1 of N),
\* every later sub-step runs all its batches, and the graph holds the effect
\* of exactly the committed batches.
C8_FailureIsolated ==
    LoadDone =>
        /\ \A k \in SubSteps :
              Cardinality(FailedIn(LogOf(k))) = 1 =>
                 /\ AttemptedInOrder(k)
                 /\ Cardinality({i \in DOMAIN LogOf(k) : LogOf(k)[i].ok})
                      = NumBatches(Len(SubStepData(data, k))) - 1
                 /\ \A j \in SubSteps : j > k => AttemptedInOrder(j)
        /\ graph = LoadOrganizedData(snap.start, data, FailedSet)

\* C8 witness: a load has finished in which the second of three batches of a
\* sub-step failed and a later sub-step committed its batches.
C8_Witness ==
    /\ LoadDone
    /\ \E k \in SubSteps :
          /\ NumBatches(Len(SubStepData(data, k))) = 3
          /\ FailedIn(LogOf(k)) = {2}
          /\ \E j \in SubSteps : j > k /\ Len(LogOf(j)) > 0 /\ Clean(LogOf(j))

\* C9: once a batch has failed, metrics.errors is at least the number of
\* items of that batch.
C9_ErrorsCoverBatch ==
    \A i \in DOMAIN log : ~log[i].ok => metrics.errors >= log[i].size

\* C10: after a load with no failed batch, every dependency name declared by a
\* module of the dataset is the target of exactly one DEPENDS_ON edge from that
\* module, and the target module node exists.
C10_DependsOnEveryName ==
    (LoadDone /\ Clean(log)) =>
        \A i \in DOMAIN data.modules :
            \A d \in Range(data.modules[i].depends) :
                LET e == [type |-> "DEPENDS_ON", src |-> <<data.modules[i].name>>,
                          dst |-> <<d>>]
                IN  /\ <<d>> \in DOMAIN graph.modules
                    /\ e \in DOMAIN graph.edges
                    /\ graph.edges[e].n = 1

(***************************************************************************)
(* The incremental state store: StateManager and ChangeDetector.           *)
(* A path is <<module directory, file name>>.  A file is absent, locked    *)
(* (it exists and cannot be opened for reading) or holds one of the        *)
(* contents.  last_update is 0 for JSON null and a clock value otherwise.  *)
(***************************************************************************)
Contents == {"c1", "c2"}
FileStates == {"absent", "locked"} \cup Contents

\* get_file_hash: the SHA-256 digest of the contents; "" when open() raises
GetFileHash(dk, p) ==
    CASE dk[p] = "c1" -> "sha256:c1"
      [] dk[p] = "c2" -> "sha256:c2"
      [] OTHER -> ""

\* the state of _load_state when there is no state file (or it fails to parse)
EmptyState == [last_update |-> 0, files |-> EmptyFn]

\* what open(state_file, "w") followed by an interrupted json.dump leaves in
\* the file: a truncated text that json.load rejects
TornState == [last_update |-> 0, files |-> EmptyFn, torn |-> TRUE]

\* _load_state on a state file that is absent (<<>>), holds one state, or
\* holds text json.load raises on (the except branch returns the empty state)
LoadState(sf) ==
    IF sf = <<>> THEN EmptyState
    ELSE IF "torn" \in DOMAIN sf[1] THEN EmptyState
    ELSE sf[1]

\* state["files"].get(file_key)
StoredHash(st, p) == IF p \in DOMAIN st.files THEN st.files[p] ELSE None

\* has_changed: False when the hash cannot be computed
HasChanged(st, dk, p) ==
    LET current_hash == GetFileHash(dk, p)
    IN  IF current_hash = "" THEN FALSE
        ELSE StoredHash(st, p) /= current_hash

UpdateFile(st, dk, p) ==
    [st EXCEPT !.files = (p :> GetFileHash(dk, p)) @@ @]

GetChangedFiles(st, dk, ps) == {p \in ps : HasChanged(st, dk, p)}

RECURSIVE MarkFilesProcessed(_, _, _)
MarkFilesProcessed(st, dk, ps) ==
    IF ps = {} THEN st
    ELSE LET p == CHOOSE q \in ps : TRUE
         IN  MarkFilesProcessed(UpdateFile(st, dk, p), dk, ps \ {p})

\* _get_relevant_files: the manifest if it exists, and every *.py / *.xml
\* file found under the module directory
RelevantFiles(dk, path) == {p \in DOMAIN dk : p[1] = path /\ dk[p] /= "absent"}

HasModuleChanged(st, dk, path) ==
    GetChangedFiles(st, dk, RelevantFiles(dk, path)) /= {}

DetectChangedModules(st, dk, mods) ==
    SelectSeq(mods, LAMBDA m : HasModuleChanged(st, dk, m.path))

\* A variant of MarkModuleProcessed that forgets the files no longer found.
MarkModuleProcessedPrune(st, dk, path) ==
    LET marked == MarkFilesProcessed(st, dk, RelevantFiles(dk, path))
        kept == {p \in DOMAIN marked.files : p[1] /= path \/ dk[p] /= "absent"}
    IN  [marked EXCEPT !.files = [p \in kept |-> marked.files[p]]]

\* mark_module_processed: the relevant files found now are re-hashed
MarkModuleProcessed(st, dk, path) ==
    MarkFilesProcessed(st, dk, RelevantFiles(dk, path))

\* A variant of ManyChanges that takes exactly 30% for a full reload.
ManyChangesInclusive(changed, total) == total /= 0 /\ 10 * changed >= 3 * total

\* change_ratio > 0.3, with change_ratio = len(changed) / len(modules) and 0
\* for an empty list; on these sizes the float comparison agrees with the
\* integer one
ManyChanges(changed, total) == total /= 0 /\ 10 * changed > 3 * total

\* A variant of FirstRun that never sees a first run.
FirstRunNever(st) == FALSE

\* not state.get("last_update")
FirstRun(st) == st.last_update = 0

GetIncrementalStrategy(st, dk, mods) ==
    IF FirstRun(st)
    THEN [full_reload |-> TRUE, changed_modules |-> mods, reason |-> "first"]
    ELSE LET changed_modules == DetectChangedModules(st, dk, mods)
         IN  IF ManyChanges(Len(changed_modules), Len(mods))
             THEN [full_reload |-> TRUE, changed_modules |-> mods,
                   reason |-> "many"]
             ELSE [full_reload |-> FALSE, changed_modules |-> changed_modules,
                   reason |-> "incremental"]

\* save_state at clock value t: stamps last_update, then writes the file
SaveState(st, t) == [st EXCEPT !.last_update = t]

(***************************************************************************)
(* SpecInc: one StateManager / ChangeDetector pair driven through its      *)
(* public methods while the files of two modules are written, locked and   *)
(* removed.                                                                *)
(***************************************************************************)
IncModules == <<Mod("m1", "1.0", <<>>), Mod("m2", "1.0", <<>>)>>

IncModuleLists == {<<>>, SubSeq(IncModules, 1, 1), IncModules}

IncPaths ==
    {<<IncModules[1].path, "__manifest__.py">>, <<IncModules[1].path, "models.py">>,
     <<IncModules[2].path, "__manifest__.py">>}

\* the manifest of a scanned module exists and can be read; any other file
\* can also be missing or locked
PathStates(p) == IF p[2] = "__manifest__.py" THEN Contents ELSE FileStates

IncDisks == {d \in [IncPaths -> FileStates] : \A p \in IncPaths : d[p] \in PathStates(p)}

LoaderOff ==
    /\ data = SeedData
    /\ graph = EmptyGraph
    /\ pos = NoPos
    /\ lpc = "idle"
    /\ loadNo = 0
    /\ metrics = [nodes_created |-> 0, relationships_created |-> 0,
                  errors |-> 0, batches_processed |-> 0]
    /\ log = <<>>
    /\ snap = [valid |-> FALSE, prev |-> EmptyGraph, prevClean |-> FALSE,
               start |-> EmptyGraph]
    /\ nfail = 0

InitInc ==
    /\ disk \in IncDisks
    /\ stateFile = <<>>
    /\ mem = LoadState(stateFile)
    /\ modules = <<>>
    /\ strategy = NoStrategy
    /\ now = 1
    /\ LoaderOff
    /\ IdleCli

\* any other call or write invalidates the recorded strategy
IncReset(afterClear) ==
    /\ strategy' = [NoStrategy EXCEPT !.afterClear = afterClear]
    /\ modules' = <<>>

\* the environment writes, locks, creates or removes a file
EnvWrite ==
    \E p \in IncPaths, s \in FileStates :
        /\ s \in PathStates(p)
        /\ disk[p] /= s
        /\ disk' = [disk EXCEPT ![p] = s]
        /\ IncReset(strategy.afterClear)
        /\ UNCHANGED <<stateFile, mem, now>>
        /\ UNCHANGED loaderVars
        /\ UNCHANGED cliVars

IncUpdateFile ==
    \E p \in IncPaths :
        /\ mem' = UpdateFile(mem, disk, p)
        /\ IncReset(FALSE)
        /\ UNCHANGED <<disk, stateFile, now>>
        /\ UNCHANGED loaderVars
        /\ UNCHANGED cliVars

IncMarkModuleProcessed ==
    \E i \in DOMAIN IncModules :
        /\ mem' = MarkModuleProcessed(mem, disk, IncModules[i].path)
        /\ IncReset(FALSE)
        /\ UNCHANGED <<disk, stateFile, now>>
        /\ UNCHANGED loaderVars
        /\ UNCHANGED cliVars

\* the calls of one behaviour fall within one reading of the clock
IncSaveState ==
    /\ mem' = SaveState(mem, now)
    /\ stateFile' = <<mem'>>
    /\ IncReset(FALSE)
    /\ UNCHANGED <<disk, now>>
    /\ UNCHANGED loaderVars
    /\ UNCHANGED cliVars

IncClearState ==
    /\ mem' = EmptyState
    /\ stateFile' = <<>>
    /\ IncReset(TRUE)
    /\ UNCHANGED <<disk, now>>
    /\ UNCHANGED loaderVars
    /\ UNCHANGED cliVars

\* StateManager(): a new instance reads the state file
IncNewManager ==
    /\ mem' = LoadState(stateFile)
    /\ IncReset(strategy.afterClear)
    /\ UNCHANGED <<disk, stateFile, now>>
    /\ UNCHANGED loaderVars
    /\ UNCHANGED cliVars

IncStrategy ==
    \E mods \in IncModuleLists :
        /\ modules' = mods
        /\ strategy' = [valid |-> TRUE, afterClear |-> strategy.afterClear,
                        res |-> GetIncrementalStrategy(mem, disk, mods)]
        /\ UNCHANGED <<disk, stateFile, mem, now>>
        /\ UNCHANGED loaderVars
        /\ UNCHANGED cliVars

NextInc ==
    \/ EnvWrite
    \/ IncUpdateFile
    \/ IncMarkModuleProcessed
    \/ IncSaveState
    \/ IncClearState
    \/ IncNewManager
    \/ IncStrategy

SpecInc == InitInc /\ [][NextInc]_vars

\* the modules of a list that has_changed reports a changed relevant file for
ChangedIndexes(st, dk, mods) ==
    {i \in DOMAIN mods :
        \E p \in RelevantFiles(dk, mods[i].path) : HasChanged(st, dk, p)}

\* C5: when the state has no last_update, get_incremental_strategy returns a
\* full reload of exactly the module list it was given, whatever hashes the
\* state holds; so does the first strategy computed after clear_state.
C5_NoTimestampFullReload ==
    (strategy.valid /\ (mem.last_update = 0 \/ strategy.afterClear))
        => (strategy.res.full_reload /\ strategy.res.changed_modules = modules)

\* a strategy computed without last_update for two modules whose files are
\* all hashed in the state and unchanged
C5_Witness ==
    /\ strategy.valid
    /\ mem.last_update = 0
    /\ modules = IncModules
    /\ ChangedIndexes(mem, disk, modules) = {}
    /\ \A p \in IncPaths : p \in DOMAIN mem.files /\ mem.files[p] /= ""
    /\ strategy.res.full_reload

\* C7: has_changed(f) is true exactly when the hash stored for f differs from
\* the current hash of f, a file without a stored entry counting as changed.
C7_ChangedIffHashDiffers ==
    \A p \in DOMAIN disk :
        disk[p] /= "absent" =>
            (HasChanged(mem, disk, p)
                <=> (p \notin DOMAIN mem.files \/ mem.files[p] /= GetFileHash(disk, p)))

(***************************************************************************)
(* SpecStrategy: get_incremental_strategy applied once to a list of up to  *)
(* MaxStratModules modules, each with a manifest that is or is not the one *)
(* hashed in the state.                                                    *)
(***************************************************************************)
MaxStratModules == 10    \* longest module list; 3 of 10 is exactly 30%

StratModules(n) == [i \in 1..n |-> Mod("mod" \o ToString(i), "1.0", <<>>)]

StratPaths(mods) == {<<mods[i].path, "__manifest__.py">> : i \in DOMAIN mods}

InitStrategy ==
    /\ \E n \in 0..MaxStratModules : modules = StratModules(n)
    /\ disk \in [StratPaths(modules) -> Contents]
    /\ \E t \in {0, 1} :
          mem = [last_update |-> t, files |-> [p \in StratPaths(modules) |-> "sha256:c1"]]
    /\ stateFile = <<mem>>
    /\ strategy = NoStrategy
    /\ now = 1
    /\ LoaderOff
    /\ IdleCli

StratApply ==
    /\ ~strategy.valid
    /\ strategy' = [valid |-> TRUE, afterClear |-> FALSE,
                    res |-> GetIncrementalStrategy(mem, disk, modules)]
    /\ UNCHANGED <<disk, stateFile, mem, modules, now>>
    /\ UNCHANGED loaderVars
    /\ UNCHANGED cliVars

NextStrategy == StratApply

SpecStrategy == InitStrategy /\ [][NextStrategy]_vars

\* C6: with last_update present, get_incremental_strategy returns a full
\* reload of all modules iff the modules with a changed relevant file are
\* strictly more than 30% of the list; otherwise it returns full_reload
\* false and exactly the changed modules, also at exactly 30% and for the
\* empty list.
C6_ThresholdStrict ==
    (strategy.valid /\ mem.last_update /= 0) =>
        LET ch == ChangedIndexes(mem, disk, modules)
            many == 10 * Cardinality(ch) > 3 * Len(modules)
        IN  /\ strategy.res.full_reload <=> many
            /\ many => strategy.res.changed_modules = modules
            /\ ~many =>
                  /\ Range(strategy.res.changed_modules) = {modules[i] : i \in ch}
                  /\ Len(strategy.res.changed_modules) = Cardinality(ch)

\* exactly 30%: three changed modules out of ten, answered incrementally
C6_Witness ==
    /\ strategy.valid
    /\ mem.last_update /= 0
    /\ Len(modules) = 10
    /\ Cardinality(ChangedIndexes(mem, disk, modules)) = 3
    /\ ~strategy.res.full_reload
    /\ Len(strategy.res.changed_modules) = 3

(***************************************************************************)
(* Spec: the `load` and `clear` commands of cli.py, run one after another  *)
(* on a source tree of two modules that the environment keeps writing.     *)
(* Contents are named per file: c1 and c2 are two versions of that file.   *)
(***************************************************************************)
MaxRuns == 2             \* `load` commands per behaviour

\* each file exists or not
CliStates(p) == {"absent", "c1"}

CliDisks == {d \in [IncPaths -> FileStates] : \A p \in IncPaths : d[p] \in CliStates(p)}

\* the manifest of each module directory: m1 depends on m2
ManifestData(name) == IF name = "m1" THEN Mod("m1", "1.0", <<"m2">>)
                      ELSE Mod(name, "1.0", <<>>)

\* ModuleScanner.scan: the directories whose manifest exists, can be read
\* and evaluates to a dict
Scan(dk) ==
    LET found == SelectSeq(IncModules,
                     LAMBDA m : GetFileHash(dk, <<m.path, "__manifest__.py">>) /= "")
    IN  [i \in DOMAIN found |-> ManifestData(found[i].name)]

\* the class declarations in models.py of a module directory
ClassesIn(dk, m) ==
    LET p == <<m.path, "models.py">>
    IN  IF p \notin DOMAIN dk THEN <<>>
        ELSE CASE dk[p] = "c1" -> <<ClassA>>
               [] dk[p] = "c2" -> <<ClassA, ClassB>>
               [] OTHER -> <<>>

\* parse_module: the models of one module, as dicts
ParseModule(dk, m) == ParsedModels(ClassesIn(dk, m))

\* the orders in which the workers' futures can complete
Orders(s) == {[i \in DOMAIN s |-> s[f[i]]] : f \in Permutations(DOMAIN s)}

\* the methods a StateManager instance has
StateManagerMethods ==
    {"save_state", "get_file_hash", "has_changed", "update_file",
     "get_changed_files", "mark_files_processed", "get_module_state",
     "update_module_state", "clear_state"}

RECURSIVE MarkModules(_, _, _)
MarkModules(st, dk, mods) ==
    IF mods = <<>> THEN st
    ELSE MarkModules(MarkModuleProcessed(st, dk, Head(mods).path), dk, Tail(mods))

LoaderIdle ==
    /\ pos = NoPos
    /\ lpc = "idle"
    /\ loadNo = 0
    /\ log = <<>>
    /\ snap = [valid |-> FALSE, prev |-> EmptyGraph, prevClean |-> FALSE,
               start |-> EmptyGraph]

Init ==
    /\ disk \in CliDisks
    /\ stateFile = <<>>
    /\ mem = EmptyState
    /\ modules = <<>>
    /\ strategy = NoStrategy
    /\ now = 0
    /\ graph = EmptyGraph
    /\ data = Organize(<<>>, <<>>, <<>>)
    /\ metrics = [nodes_created |-> 0, relationships_created |-> 0,
                  errors |-> 0, batches_processed |-> 0]
    /\ nfail = 0
    /\ LoaderIdle
    /\ IdleCli

loaderRest == <<pos, lpc, loadNo, log, snap>>

\* the environment creates or removes a file; `load` reads no file after
\* parsing, so a write during steps 4 and 5 is taken after the command
CliEnvWrite ==
    \E p \in IncPaths, s \in FileStates :
        /\ pc \in {"off", "scanned", "planned"}
        /\ s \in CliStates(p)
        /\ disk[p] /= s
        /\ disk' = [disk EXCEPT ![p] = s]
        /\ run' = [run EXCEPT !.dirty = TRUE]
        /\ UNCHANGED <<stateFile, mem, modules, strategy, now, pc, pool>>
        /\ UNCHANGED loaderVars

\* `load [--full] [--clear]` starts: step 1, the scan
CmdLoad ==
    \E full \in BOOLEAN, clear \in BOOLEAN :
        /\ pc = "off"
        /\ now < MaxRuns
        /\ now' = now + 1
        /\ modules' = Scan(disk)
        /\ run' = [NoRun EXCEPT !.full = full, !.clear = clear,
                                !.before = stateFile,
                                !.outcome = "running",
                                !.prevOk = (run.outcome = "ok" /\ run.errors = 0
                                            /\ ~run.dirty)]
        /\ pc' = "scanned"
        /\ strategy' = NoStrategy
        /\ UNCHANGED <<disk, stateFile, mem, pool>>
        /\ UNCHANGED loaderVars

\* step 2: a new StateManager and, without --full, the strategy
CmdStrategy ==
    /\ pc = "scanned"
    /\ mem' = LoadState(stateFile)
    /\ IF run.full
       THEN /\ strategy' = NoStrategy
            /\ run' = [run EXCEPT !.to_process = modules]
       ELSE LET res == GetIncrementalStrategy(mem', disk, modules)
                names == {res.changed_modules[i].name : i \in DOMAIN res.changed_modules}
            IN  /\ strategy' = [valid |-> TRUE, afterClear |-> FALSE, res |-> res]
                /\ run' = [run EXCEPT !.to_process =
                              IF res.full_reload THEN modules
                              ELSE SelectSeq(modules, LAMBDA m : m.name \in names)]
    /\ pc' = "planned"
    /\ UNCHANGED <<disk, stateFile, modules, now, pool>>
    /\ UNCHANGED loaderVars

\* steps 3 and 3.5: the workers parse modules_to_process, the results are
\* collected as they complete and organized with all scanned modules
CmdParse ==
    /\ pc = "planned"
    /\ \E order \in Orders(run.to_process) :
          LET all_models == Concat([i \in DOMAIN order |-> ParseModule(disk, order[i])])
          IN  data' = Organize(modules, all_models, <<>>)
    /\ pc' = "parsed"
    /\ UNCHANGED <<graph, metrics, nfail, run, pool>>
    /\ UNCHANGED loaderRest
    /\ UNCHANGED stateVars

\* step 4: a new Neo4jLoader; clear_graph with --clear or --full; then
\* load_organized_data, in which the batches of `failed` raise
CmdLoadGraph ==
    /\ pc = "parsed"
    /\ \E failed \in SUBSET AllBatches(data) :
          /\ nfail + Cardinality(failed) <= MaxFail
          /\ nfail' = nfail + Cardinality(failed)
          /\ graph' = LoadOrganizedData(
                          IF run.clear \/ run.full THEN ClearGraph(graph) ELSE graph,
                          data, failed)
          /\ metrics' = [nodes_created |-> 0, relationships_created |-> 0,
                         errors |-> Cardinality(failed),
                         batches_processed |-> Cardinality(AllBatches(data) \ failed)]
          /\ run' = [run EXCEPT !.loaded = TRUE,
                                !.wrote = (AllBatches(data) /= {}),
                                !.errors = Cardinality(failed),
                                !.sameCounts = /\ GetStats(graph') = GetStats(graph)
                                               /\ EdgeCount(graph') = EdgeCount(graph)]
    /\ pc' = "loaded"
    /\ UNCHANGED <<data, pool>>
    /\ UNCHANGED loaderRest
    /\ UNCHANGED stateVars

\* the command returns or raises: its locals are gone
Exit ==
    /\ pc' = "off"
    /\ mem' = EmptyState
    /\ modules' = <<>>
    /\ strategy' = NoStrategy
    /\ data' = Organize(<<>>, <<>>, <<>>)

\* step 4 when the store cannot be reached: the exception leaves `load`
CmdLoaderRaise ==
    /\ pc = "parsed"
    /\ run' = [run EXCEPT !.outcome = "raised", !.unreachable = TRUE]
    /\ Exit
    /\ UNCHANGED <<disk, stateFile, now, pool>>
    /\ UNCHANGED <<graph, metrics, nfail>>
    /\ UNCHANGED loaderRest

\* step 4 when the driver and its sessions are created without connecting
\* and every query fails: setup_schema prints a warning per constraint,
\* every batch of load_organized_data raises inside _batch_execute and is
\* counted, get_stats returns zeros; with --clear or --full clear_graph
\* raises instead (CmdLoaderRaise)
CmdLoadGraphUnreachable ==
    /\ pc = "parsed"
    /\ ~(run.clear \/ run.full)
    /\ metrics' = [nodes_created |-> 0, relationships_created |-> 0,
                   errors |-> Cardinality(AllBatches(data)),
                   batches_processed |-> 0]
    /\ run' = [run EXCEPT !.loaded = TRUE,
                          !.wrote = (AllBatches(data) /= {}),
                          !.errors = Cardinality(AllBatches(data)),
                          !.sameCounts = TRUE,
                          !.unreachable = TRUE]
    /\ pc' = "loaded"
    /\ UNCHANGED <<graph, data, nfail, pool>>
    /\ UNCHANGED loaderRest
    /\ UNCHANGED stateVars

\* step 5: state_manager.mark_module_processed for each processed module,
\* then save_state; looking up a method StateManager lacks raises
\* AttributeError, which leaves `load`
CmdUpdateState ==
    /\ pc = "loaded"
    /\ IF run.to_process /= <<>> /\ "mark_module_processed" \notin StateManagerMethods
       THEN /\ run' = [run EXCEPT !.outcome = "raised"]
            /\ UNCHANGED stateFile
       ELSE /\ stateFile' = <<SaveState(MarkModules(mem, disk, run.to_process), now)>>
            /\ run' = [run EXCEPT !.outcome = "ok"]
    /\ Exit
    /\ UNCHANGED <<disk, now, pool>>
    /\ UNCHANGED <<graph, metrics, nfail>>
    /\ UNCHANGED loaderRest

\* step 5 when save_state raises: open(state_file, "w") fails and the file
\* is as it was, or the write is interrupted after open truncated the file;
\* save_state catches nothing and `load` re-raises
CmdSaveStateFail ==
    /\ pc = "loaded"
    /\ run.to_process = <<>> \/ "mark_module_processed" \in StateManagerMethods
    /\ \/ UNCHANGED stateFile
       \/ stateFile' = <<TornState>>
    /\ run' = [run EXCEPT !.outcome = "raised", !.saveFailed = TRUE]
    /\ Exit
    /\ UNCHANGED <<disk, now, pool>>
    /\ UNCHANGED <<graph, metrics, nfail>>
    /\ UNCHANGED loaderRest

\* the `clear` command, confirmed
CmdClear ==
    /\ pc = "off"
    /\ run.outcome /= "none"
    /\ graph' = ClearGraph(graph)
    /\ stateFile' = <<>>
    /\ run' = [NoRun EXCEPT !.dirty = run.dirty]
    /\ UNCHANGED <<disk, mem, modules, strategy, now, pc, pool>>
    /\ UNCHANGED <<data, metrics, nfail>>
    /\ UNCHANGED loaderRest

Next ==
    \/ CliEnvWrite
    \/ CmdLoad
    \/ CmdStrategy
    \/ CmdParse
    \/ CmdLoadGraph
    \/ CmdLoaderRaise
    \/ CmdLoadGraphUnreachable
    \/ CmdUpdateState
    \/ CmdSaveStateFail
    \/ CmdClear

Spec == Init /\ [][Next]_vars

\* a `load` command has ended, normally or by an exception
RunEnded == pc = "off" /\ run.outcome \in {"ok", "raised"}

\* C2: when a load command whose graph load completed has ended, the state
\* file exists with last_update set by this command and holds the current
\* hash of every relevant file of every processed module.
C2_StatePersistedAfterLoad ==
    (RunEnded /\ run.loaded) =>
        /\ stateFile /= <<>>
        /\ stateFile[1].last_update = now
        /\ ~run.dirty =>
              \A i \in DOMAIN run.to_process :
                  \A p \in RelevantFiles(disk, run.to_process[i].path) :
                      /\ p \in DOMAIN stateFile[1].files
                      /\ stateFile[1].files[p] = GetFileHash(disk, p)

\* C3: when a load command in which a batch failed or the loader raised has
\* ended, the state file is what it was when the command started.
C3_StateKeptOnFailedLoad ==
    (RunEnded /\ (run.errors > 0 \/ ~run.loaded)) => stateFile = run.before

\* C4: a load command without --full (and without --clear) that follows a
\* successful one, no file having been written since that one started,
\* parses no module, runs no loader batch, leaves the node and edge counts
\* as they were and leaves last_update as it was.
C4_IncrementalNoOp ==
    (RunEnded /\ run.prevOk /\ ~run.dirty /\ ~run.full /\ ~run.clear) =>
        /\ run.to_process = <<>>
        /\ ~run.wrote
        /\ run.sameCounts
        /\ LoadState(stateFile).last_update = LoadState(run.before).last_update

(***************************************************************************)
(* Properties of the loader: references and placeholders                   *)
(***************************************************************************)
\* the names of the entity rows of a dataset (its Phase 1 entity writes)
EntityNames(d) == {d.models[i].name : i \in DOMAIN d.models}

ViewIds(d) == {d.views[i].xml_id : i \in DOMAIN d.views}

\* an entity node that carries only its name
IsPlaceholder(tbl, key) == key \in DOMAIN tbl /\ tbl[key].props = <<>>

\* C11: after a load with no failed batch every view of the dataset has a
\* VIEW_FOR edge to an entity node named by its model; when no entity of that
\* name was written in Phase 1 (nor was in the graph before), that node is a
\* placeholder carrying only its name.
C11_ViewForEveryView ==
    (LoadDone /\ Clean(log)) =>
        \A i \in DOMAIN data.views :
            LET v == data.views[i]
                e == [type |-> "VIEW_FOR", src |-> <<v.xml_id>>, dst |-> <<v.model>>]
            IN  /\ <<v.model>> \in DOMAIN graph.models
                /\ e \in DOMAIN graph.edges
                /\ (v.model \notin EntityNames(data)
                    /\ <<v.model>> \notin DOMAIN snap.start.models)
                      => IsPlaceholder(graph.models, <<v.model>>)

UnknownParentData ==
    Organize(UnknownParentCorpus.modules, UnknownParentCorpus.models,
             UnknownParentCorpus.views)

\* the INHERITS edges that point to the entity named n
InheritsInto(g, n) ==
    {e \in DOMAIN g.edges : e.type = "INHERITS" /\ e.dst = <<n>>}

ClosedByPlaceholder(tbl, tbl0, key, e) ==
    /\ key \in DOMAIN tbl
    /\ e \in DOMAIN graph.edges
    /\ IF key \in DOMAIN tbl0 THEN tbl[key] = tbl0[key]
       ELSE tbl[key] = [props |-> <<>>, n |-> 1]

\* C13: after a load with no failed batch, for every INHERITS,
\* INHERITS_DELEGATION and RELATES_TO record whose target entity was not
\* written in Phase 1, and every EXTENDS record whose parent view was not
\* written in Phase 1, the target node and the edge to it exist; the node
\* carries only its key when the load created it and is unchanged, attributes
\* included, when it was in the graph before.
C13_ReferenceClosure ==
    (LoadDone /\ Clean(log)) =>
        /\ \A i \in DOMAIN data.model_inheritances :
              LET r == data.model_inheritances[i]
              IN  r.parent \notin EntityNames(data) =>
                     ClosedByPlaceholder(graph.models, snap.start.models, <<r.parent>>,
                        [type |-> "INHERITS", src |-> <<r.child>>, dst |-> <<r.parent>>])
        /\ \A i \in DOMAIN data.model_delegations :
              LET r == data.model_delegations[i]
              IN  r.parent \notin EntityNames(data) =>
                     ClosedByPlaceholder(graph.models, snap.start.models, <<r.parent>>,
                        [type |-> "INHERITS_DELEGATION", src |-> <<r.child>>,
                         dst |-> <<r.parent>>])
        /\ \A i \in DOMAIN data.field_references :
              LET r == data.field_references[i]
              IN  r.related_model \notin EntityNames(data) =>
                     ClosedByPlaceholder(graph.models, snap.start.models,
                        <<r.related_model>>,
                        [type |-> "RELATES_TO", src |-> <<r.model_name, r.field_name>>,
                         dst |-> <<r.related_model>>])
        /\ \A i \in DOMAIN data.view_inheritances :
              LET r == data.view_inheritances[i]
              IN  r.parent \notin ViewIds(data) =>
                     ClosedByPlaceholder(graph.views, snap.start.views, <<r.parent>>,
                        [type |-> "EXTENDS", src |-> <<r.child>>, dst |-> <<r.parent>>])

\* a clean first load on the seeded graph: a delegation to the entity p that
\* the graph already held with attributes, a field reference to an entity
\* outside the dataset, and a parent view the load created
C13_Witness ==
    /\ LoadDone /\ Clean(log) /\ loadNo = 1
    /\ \E i \in DOMAIN data.model_delegations :
          /\ data.model_delegations[i].parent \notin EntityNames(data)
          /\ <<data.model_delegations[i].parent>> \in DOMAIN snap.start.models
          /\ snap.start.models[<<data.model_delegations[i].parent>>].props /= <<>>
    /\ \E i \in DOMAIN data.field_references :
          data.field_references[i].related_model \notin EntityNames(data)
    /\ \E i \in DOMAIN data.view_inheritances :
          /\ data.view_inheritances[i].parent \notin ViewIds(data)
          /\ <<data.view_inheritances[i].parent>> \notin DOMAIN snap.start.views
          /\ IsPlaceholder(graph.views, <<data.view_inheritances[i].parent>>)

\* the HAS_FIELD edges that end at the field node `key`
OwnersOf(g, key) == {e \in DOMAIN g.edges : e.type = "HAS_FIELD" /\ e.dst = key}

\* every field node has exactly one HAS_FIELD edge, from an existing entity
\* node named by the field's model key
FieldsOwned(g) ==
    \A key \in DOMAIN g.fields :
        /\ Cardinality(OwnersOf(g, key)) = 1
        /\ \A e \in OwnersOf(g, key) :
              /\ g.edges[e].n = 1
              /\ e.src = <<key[1]>>
              /\ e.src \in DOMAIN g.models

\* C14: in every graph state a sequence of loads ends in, every field node is
\* the endpoint of exactly one HAS_FIELD edge, whose source entity node exists
\* and is named by the field's model key.
C14_FieldHasOneOwner == LoadDone => FieldsOwned(graph)

\* the names of the entity rows of batch b of sub-step 2
EntityBatchNames(d, b) ==
    LET rows == BatchOf(d.models, b) IN {rows[i].name : i \in DOMAIN rows}

\* the entities whose node batch failed in this load and that no committed
\* entity batch and no earlier load wrote
LostEntities ==
    LET nb == NumBatches(Len(data.models))
        failed == UNION {EntityBatchNames(data, b) : b \in {c \in 1..nb : <<2, c>> \in FailedSet}}
        written == UNION {EntityBatchNames(data, b) : b \in {c \in 1..nb : <<2, c>> \notin FailedSet}}
    IN  {n \in failed \ written : <<n>> \notin DOMAIN snap.start.models}

\* the Phase 2 edges of the dataset that involve entity n: CONTAINS_MODEL,
\* INHERITS as child or parent, HAS_FIELD, VIEW_FOR
EdgesInvolving(d, n) ==
    {[type |-> "CONTAINS_MODEL", src |-> <<d.model_module_rels[i].module>>, dst |-> <<n>>] :
        i \in {j \in DOMAIN d.model_module_rels : d.model_module_rels[j].model = n}}
    \cup {[type |-> "INHERITS", src |-> <<d.model_inheritances[i].child>>,
           dst |-> <<d.model_inheritances[i].parent>>] :
        i \in {j \in DOMAIN d.model_inheritances :
                  n \in {d.model_inheritances[j].child, d.model_inheritances[j].parent}}}
    \cup {[type |-> "HAS_FIELD", src |-> <<n>>, dst |-> <<n, d.field_model_rels[i].field_name>>] :
        i \in {j \in DOMAIN d.field_model_rels : d.field_model_rels[j].model_name = n}}
    \cup {[type |-> "VIEW_FOR", src |-> <<d.view_model_rels[i].view_xml_id>>, dst |-> <<n>>] :
        i \in {j \in DOMAIN d.view_model_rels : d.view_model_rels[j].model = n}}

\* every sub-step of Phase 2 attempted each of its batches
Phase2Ran == \A k \in 5..13 : AttemptedInOrder(k)

\* C15: when only entity-node batches fail, the load still ends, Phase 2 still
\* runs, and for every entity of a failed batch the entity stands as a
\* placeholder and each Phase 2 edge involving it is in the graph.
C15_FailedEntityClosedByPlaceholder ==
    (LoadDone /\ FailedSet # {} /\ \A f \in FailedSet : f[1] = 2) =>
        /\ Phase2Ran
        /\ \A n \in LostEntities :
              /\ IsPlaceholder(graph.models, <<n>>)
              /\ EdgesInvolving(data, n) \subseteq DOMAIN graph.edges

(***************************************************************************)
(* SpecParse: steps 3 to 4 of `load` with the worker pool unfolded.  Every *)
(* module of modules_to_process is submitted to the ThreadPoolExecutor;    *)
(* each worker runs parse_module and ends by returning its lists or by     *)
(* raising; the main thread drains the futures in the order as_completed   *)
(* yields them, then organizes and loads into an empty graph, no batch     *)
(* failing.                                                                *)
(***************************************************************************)
PoolModuleLists ==
    {<<Mod("m1", "1.0", <<>>), Mod("m2", "1.0", <<"m1">>)>>,
     <<Mod("m1", "1.0", <<>>), Mod("m2", "1.0", <<"m1">>), Mod("m3", "1.0", <<>>)>>}

\* the class declarations a module's models.py may hold
PoolClassLists == {<<>>, <<ClassA[1]>>, <<ClassA2[1]>>, <<ClassExt[1]>>}

\* the views a module's view files may hold
PoolViewLists(m) == {<<>>, <<View(m.name \o ".v", "a", None, m.name)>>}

\* what parse_module(m) can end in: an exception (rglob on an unreadable
\* directory), or the model dicts and the view dicts of the module
WorkerOutcomes(m) ==
    {[raised |-> TRUE, models |-> <<>>, views |-> <<>>]}
    \cup {[raised |-> FALSE, models |-> ParseModels(cl, m.name), views |-> vl] :
            cl \in PoolClassLists, vl \in PoolViewLists(m)}

\* a variant of DrainFuture in which an exception of a future ends the
\* draining loop: the futures not yet collected are dropped
DrainFutureAbort(pl, mods, i) ==
    LET o == pl.outcomes[i]
    IN  IF o.raised
        THEN [pl EXCEPT !.futures = [j \in DOMAIN pl.futures |-> "collected"],
                        !.completed = <<>>,
                        !.failed = Append(@, mods[i].name)]
        ELSE [pl EXCEPT !.futures[i] = "collected",
                        !.completed = Tail(@),
                        !.all_models = @ \o o.models,
                        !.all_views = @ \o o.views]

\* one turn of `for future in as_completed(...)` for future i: result()
\* returns the lists, which extend all_models and all_views, or raises, and
\* the except branch reports the module
DrainFuture(pl, mods, i) ==
    LET o == pl.outcomes[i]
    IN  IF o.raised
        THEN [pl EXCEPT !.futures[i] = "collected",
                        !.completed = Tail(@),
                        !.failed = Append(@, mods[i].name)]
        ELSE [pl EXCEPT !.futures[i] = "collected",
                        !.completed = Tail(@),
                        !.all_models = @ \o o.models,
                        !.all_views = @ \o o.views]

InitParse ==
    /\ modules \in PoolModuleLists
    /\ pc = "planned"
    /\ run = [NoRun EXCEPT !.to_process = modules, !.outcome = "running"]
    /\ pool = NoPool
    /\ disk = EmptyFn
    /\ stateFile = <<>>
    /\ mem = EmptyState
    /\ strategy = NoStrategy
    /\ now = 1
    /\ graph = EmptyGraph
    /\ data = Organize(<<>>, <<>>, <<>>)
    /\ metrics = [nodes_created |-> 0, relationships_created |-> 0,
                  errors |-> 0, batches_processed |-> 0]
    /\ nfail = 0
    /\ LoaderIdle

\* executor.submit(parse_module, module) for every module to process
PoolSubmit ==
    /\ pc = "planned"
    /\ \E os \in [DOMAIN run.to_process -> UNION {WorkerOutcomes(run.to_process[i]) :
                                                    i \in DOMAIN run.to_process}] :
          /\ \A i \in DOMAIN os : os[i] \in WorkerOutcomes(run.to_process[i])
          /\ pool' = [NoPool EXCEPT !.outcomes = os,
                                    !.futures = [i \in DOMAIN os |-> "running"]]
    /\ pc' = "parsing"
    /\ UNCHANGED <<run, graph, data, metrics, nfail>>
    /\ UNCHANGED loaderRest
    /\ UNCHANGED stateVars

\* the worker of future i ends: its result or its exception is stored in
\* the future; parse_module touches nothing else
WorkerFinish(i) ==
    /\ pc = "parsing"
    /\ pool.futures[i] = "running"
    /\ pool' = [pool EXCEPT !.futures[i] = "done", !.completed = Append(@, i)]
    /\ UNCHANGED <<pc, run, graph, data, metrics, nfail>>
    /\ UNCHANGED loaderRest
    /\ UNCHANGED stateVars

\* the main thread takes the next finished future
PoolDrain ==
    /\ pc = "parsing"
    /\ pool.completed /= <<>>
    /\ pool' = DrainFuture(pool, run.to_process, Head(pool.completed))
    /\ UNCHANGED <<pc, run, graph, data, metrics, nfail>>
    /\ UNCHANGED loaderRest
    /\ UNCHANGED stateVars

\* step 3.5, once the pool is closed
PoolOrganize ==
    /\ pc = "parsing"
    /\ \A i \in DOMAIN pool.futures : pool.futures[i] = "collected"
    /\ data' = Organize(modules, pool.all_models, pool.all_views)
    /\ pc' = "parsed"
    /\ UNCHANGED <<run, pool, graph, metrics, nfail>>
    /\ UNCHANGED loaderRest
    /\ UNCHANGED stateVars

\* step 4 into an empty graph, no batch failing
PoolLoad ==
    /\ pc = "parsed"
    /\ graph' = LoadOrganizedData(EmptyGraph, data, {})
    /\ pc' = "loaded"
    /\ UNCHANGED <<run, pool, data, metrics, nfail>>
    /\ UNCHANGED loaderRest
    /\ UNCHANGED stateVars

NextParse ==
    \/ PoolSubmit
    \/ \E i \in DOMAIN pool.futures : WorkerFinish(i)
    \/ PoolDrain
    \/ PoolOrganize
    \/ PoolLoad

SpecParse == InitParse /\ [][NextParse]_vars

\* the lists the draining loop builds when the futures complete in the
\* order they were submitted
InSubmissionOrder(pl) ==
    [all_models |-> Concat([i \in DOMAIN pl.outcomes |-> pl.outcomes[i].models]),
     all_views |-> Concat([i \in DOMAIN pl.outcomes |-> pl.outcomes[i].views])]

\* occurrences of x in the sequence s
CountIn(s, x) == Cardinality({i \in DOMAIN s : s[i] = x})

\* the same rows, each as often, in every list of two datasets
SameRows(d1, d2) ==
    \A k \in SubSteps :
        /\ Len(SubStepData(d1, k)) = Len(SubStepData(d2, k))
        /\ \A x \in Range(SubStepData(d1, k)) :
              CountIn(SubStepData(d1, k), x) = CountIn(SubStepData(d2, k), x)

\* C16: whatever order the parse workers complete in, the loader is handed
\* the same rows and the loaded graph is the one obtained when the workers
\* complete in submission order, also when two modules contribute entities
\* of the same effective name.
C16_CompletionOrderIrrelevant ==
    pc = "loaded" =>
        LET ref == InSubmissionOrder(pool)
            d0 == Organize(modules, ref.all_models, ref.all_views)
        IN  /\ SameRows(data, d0)
            /\ graph = LoadOrganizedData(EmptyGraph, d0, {})

\* the pool is closed: every submitted future was drained
PoolClosed == pc \in {"parsed", "loaded"}

\* module i of the pool contributes exactly what its worker returned: each
\* of its model and view dicts as often as returned, nothing when it raised
CollectedOnce(pl, mods, i) ==
    LET o == pl.outcomes[i]
        mine(s) == SelectSeq(s, LAMBDA x : x.module = mods[i].name)
    IN  /\ Len(mine(pl.all_models)) = Len(o.models)
        /\ Len(mine(pl.all_views)) = Len(o.views)
        /\ \A x \in Range(o.models) : CountIn(pl.all_models, x) = CountIn(o.models, x)
        /\ \A x \in Range(o.views) : CountIn(pl.all_views, x) = CountIn(o.views, x)
        /\ CountIn(pl.failed, mods[i].name) = IF o.raised THEN 1 ELSE 0

\* a step in which a worker ends
WorkerStep ==
    /\ pc = "parsing"
    /\ pc' = "parsing"
    /\ \E i \in DOMAIN pool.futures : pool.futures[i] = "running" /\ pool'.futures[i] = "done"

\* C17: a worker that raises affects only its module: once the pool is closed
\* the command goes on, the module that raised contributes nothing and is
\* reported once, every other module's dicts are in the flat lists exactly as
\* often as its worker returned them; and no step of a worker changes the
\* flat lists or the state store.
C17_WorkerFailureIsolated ==
    /\ [](PoolClosed => \A i \in DOMAIN pool.outcomes :
                            CollectedOnce(pool, run.to_process, i))
    /\ [][WorkerStep => /\ pool'.all_models = pool.all_models
                        /\ pool'.all_views = pool.all_views
                        /\ pool'.failed = pool.failed
                        /\ UNCHANGED <<stateFile, mem>>]_vars

\* a load ended after the first finished worker raised and a later one
\* returned an entity and a view
C17_Witness ==
    /\ pc = "loaded"
    /\ pool.failed = <<"m1">>
    /\ pool.all_models /= <<>>
    /\ pool.all_views /= <<>>
    /\ \E i \in DOMAIN pool.outcomes : ~pool.outcomes[i].raised /\ pool.outcomes[i].models /= <<>>

\* C18: when a load command during which the graph store could not be
\* reached has ended, it ended by raising and the state file is what it was
\* when the command started.
C18_UnreachableStoreIsFatal ==
    (RunEnded /\ run.unreachable) => (run.outcome = "raised" /\ stateFile = run.before)

\* C19: when a load command in which writing the state file failed has
\* ended, the state the next run reads is the state that was persisted when
\* the command started, and the command ended normally.
C19_StateWriteAtomic ==
    (RunEnded /\ run.saveFailed) =>
        /\ LoadState(stateFile) = LoadState(run.before)
        /\ run.outcome = "ok"

\* every node and every edge of graph g is in graph h
Preserved(g, h) ==
    /\ DOMAIN g.modules \subseteq DOMAIN h.modules
    /\ DOMAIN g.models \subseteq DOMAIN h.models
    /\ DOMAIN g.views \subseteq DOMAIN h.views
    /\ DOMAIN g.fields \subseteq DOMAIN h.fields
    /\ DOMAIN g.edges \subseteq DOMAIN h.edges

\* C20: step 4 of a load command run without --clear leaves every node and
\* every edge of the graph in the graph.
C20_LoadNeverDeletes ==
    [][(pc = "parsed" /\ ~run.clear) => Preserved(graph, graph')]_vars

(***************************************************************************)
(* Properties settled over the loader, the parser and the transformer      *)
(***************************************************************************)
DuplicateData ==
    Organize(DuplicateCorpus.modules, DuplicateCorpus.models, DuplicateCorpus.views)

\* every identity of a node table stands for one node
OneNodeEach(tbl) == \A key \in DOMAIN tbl : tbl[key].n = 1

\* C21: in every graph state reached by loads and clears, batches failing or
\* not, there is one module node per name, one entity node per effective
\* name, one view node per xml_id and one field node per (entity, field).
C21_IdentityUnique ==
    /\ OneNodeEach(graph.modules)
    /\ OneNodeEach(graph.models)
    /\ OneNodeEach(graph.views)
    /\ OneNodeEach(graph.fields)

\* a load of the corpus in which every identity occurs twice has ended with
\* no batch failing: a node of each label is in the graph
C21_Witness ==
    /\ LoadDone /\ Clean(log)
    /\ data = DuplicateData
    /\ <<"m1">> \in DOMAIN graph.modules
    /\ <<"a">> \in DOMAIN graph.models
    /\ <<"m1.v1">> \in DOMAIN graph.views
    /\ <<"a", "name">> \in DOMAIN graph.fields

(***************************************************************************)
(* SpecTransform: one module m1 whose models.py holds one or two class     *)
(* declarations is parsed (ModelParser), organized (the transformer) and   *)
(* loaded into an empty graph, no batch failing.  In this specification    *)
(* the content of models.py on `disk` is the list of its declarations.     *)
(***************************************************************************)
ModelsPy == <<<<"addons", "m1">>, "models.py">>

\* the fields a class may declare: none, a Many2one with two keyword
\* arguments in either order, and the same field assigned twice
SrcFieldLists ==
    {<<>>,
     <<Fld("p_id", "Many2one", "p", <<<<"required", "true">>, <<"string", "P">>>>)>>,
     <<Fld("p_id", "Many2one", "p", <<<<"string", "P">>, <<"required", "true">>>>)>>,
     <<Fld("p_id", "Many2one", "p", <<>>), Fld("p_id", "Many2one", "p", <<>>)>>}

\* the class declarations _is_odoo_model accepts, by every combination of
\* base, _name, _inherit, _inherits, _transient and fields
SrcDecls ==
    {Cls("K1", base, name, inherit, inherits, transient, fields) :
        base \in {"Model", "TransientModel", "AbstractModel"},
        name \in {None, "a", "p"},
        inherit \in {<<>>, <<"p">>, <<"a">>, <<"p", "p">>, <<"a", "p">>},
        inherits \in {<<>>, <<<<"p", "p_id">>>>},
        transient \in BOOLEAN,
        fields \in SrcFieldLists}

\* the declarations that come in pairs
SrcPairDecls ==
    {Cls("K2", "Model", name, inherit, <<>>, FALSE, fields) :
        name \in {None, "a"},
        inherit \in {<<>>, <<"a">>, <<"p">>},
        fields \in {<<>>, <<Fld("p_id", "Many2one", "p", <<>>)>>}}

SrcFiles ==
    {<<c>> : c \in SrcDecls}
    \cup {<<[c1 EXCEPT !.class_name = "K1"], c2>> : c1 \in SrcPairDecls, c2 \in SrcPairDecls}

InitTransform ==
    /\ modules = <<Mod("m1", "1.0", <<>>)>>
    /\ disk \in [{ModelsPy} -> SrcFiles]
    /\ pc = "planned"
    /\ run = [NoRun EXCEPT !.to_process = modules, !.outcome = "running"]
    /\ pool = NoPool
    /\ stateFile = <<>>
    /\ mem = EmptyState
    /\ strategy = NoStrategy
    /\ now = 1
    /\ graph = EmptyGraph
    /\ data = Organize(<<>>, <<>>, <<>>)
    /\ metrics = [nodes_created |-> 0, relationships_created |-> 0,
                  errors |-> 0, batches_processed |-> 0]
    /\ nfail = 0
    /\ LoaderIdle

\* step 3: parse_module(m1), its model dicts collected
TransformParse ==
    /\ pc = "planned"
    /\ pool' = [NoPool EXCEPT !.all_models = ParseModels(disk[ModelsPy], modules[1].name)]
    /\ pc' = "collected"
    /\ UNCHANGED <<run, graph, data, metrics, nfail>>
    /\ UNCHANGED loaderRest
    /\ UNCHANGED stateVars

\* step 3.5: organize_data_for_loading
TransformOrganize ==
    /\ pc = "collected"
    /\ data' = Organize(modules, pool.all_models, pool.all_views)
    /\ pc' = "parsed"
    /\ UNCHANGED <<run, pool, graph, metrics, nfail>>
    /\ UNCHANGED loaderRest
    /\ UNCHANGED stateVars

\* step 4 into an empty graph, no batch failing
TransformLoad ==
    /\ pc = "parsed"
    /\ graph' = LoadOrganizedData(EmptyGraph, data, {})
    /\ pc' = "loaded"
    /\ UNCHANGED <<run, pool, data, metrics, nfail>>
    /\ UNCHANGED loaderRest
    /\ UNCHANGED stateVars

NextTransform == TransformParse \/ TransformOrganize \/ TransformLoad

SpecTransform == InitTransform /\ [][NextTransform]_vars

\* the declarations of models.py with no _name and exactly one _inherit entry
InPlaceExtensions ==
    {i \in DOMAIN disk[ModelsPy] :
        disk[ModelsPy][i].name = None /\ Len(disk[ModelsPy][i].inherit) = 1}

\* the entity rows the transformer emitted for class cn under name p
RowsOf(d, cn, p) == {i \in DOMAIN d.models : d.models[i].class_name = cn /\ d.models[i].name = p}

\* C22: a class with no _name and exactly one _inherit entry p is parsed with
\* effective name p, and the transformer emits its entity row with
\* model_type 'extension', whatever its base class, _transient, _inherits
\* and fields are.
C22_InPlaceExtensionType ==
    /\ pc \in {"collected", "parsed", "loaded"} =>
          \A i \in InPlaceExtensions :
              pool.all_models[i].name = disk[ModelsPy][i].inherit[1]
    /\ pc \in {"parsed", "loaded"} =>
          \A i \in InPlaceExtensions :
              LET c == disk[ModelsPy][i]
              IN  /\ RowsOf(data, c.class_name, c.inherit[1]) /= {}
                  /\ \A j \in RowsOf(data, c.class_name, c.inherit[1]) :
                        data.models[j].model_type = "extension"

(***************************************************************************)
(* SpecScan: ModuleScanner.scan over a root with three directories.  The   *)
(* manifest of a directory is absent, unreadable ("locked"), a dict        *)
(* literal ("c1", "c2"), text that eval raises on ("syntax"), or an        *)
(* expression whose value is not a dict ("list").                          *)
(***************************************************************************)
ScanDirs == <<"m1", "m2", "m3">>

ManifestOf(name) == <<<<"addons", name>>, "__manifest__.py">>

ManifestStates == {"absent", "locked", "c1", "c2", "syntax", "list"}

\* _safe_eval_manifest: the dict the content evaluates to; the empty dict
\* when eval raises or the value is not a dict
SafeEvalManifest(content) ==
    CASE content = "c1" -> [version |-> <<"1.0">>, depends |-> <<<<"base">>>>]
      [] content = "c2" -> [version |-> <<"2.0">>, depends |-> <<>>]
      [] OTHER -> [version |-> <<>>, depends |-> <<>>]

\* _parse_module: no record when read_text raises; otherwise the record
\* built from the evaluated dict, with the defaults of .get for absent keys
ScannerParseModule(dk, name) ==
    IF dk[ManifestOf(name)] = "locked" THEN <<>>
    ELSE LET manifest_data == SafeEvalManifest(dk[ManifestOf(name)])
         IN  <<Mod(name,
                   IF manifest_data.version = <<>> THEN "1.0" ELSE manifest_data.version[1],
                   IF manifest_data.depends = <<>> THEN <<>> ELSE manifest_data.depends[1])>>

\* scan: every directory in which _find_manifest finds a manifest is parsed
ScanTree(dk) ==
    Concat([i \in DOMAIN ScanDirs |->
                IF dk[ManifestOf(ScanDirs[i])] = "absent" THEN <<>>
                ELSE ScannerParseModule(dk, ScanDirs[i])])

InitScan ==
    /\ disk \in [{ManifestOf(ScanDirs[i]) : i \in DOMAIN ScanDirs} -> ManifestStates]
    /\ modules = <<>>
    /\ pc = "off"
    /\ run = NoRun
    /\ pool = NoPool
    /\ stateFile = <<>>
    /\ mem = EmptyState
    /\ strategy = NoStrategy
    /\ now = 1
    /\ graph = EmptyGraph
    /\ data = Organize(<<>>, <<>>, <<>>)
    /\ metrics = [nodes_created |-> 0, relationships_created |-> 0,
                  errors |-> 0, batches_processed |-> 0]
    /\ nfail = 0
    /\ LoaderIdle

\* step 1 of `load`
ScanStep ==
    /\ pc = "off"
    /\ modules' = ScanTree(disk)
    /\ pc' = "scanned"
    /\ UNCHANGED <<disk, stateFile, mem, strategy, now>>
    /\ UNCHANGED <<run, pool>>
    /\ UNCHANGED loaderVars

NextScan == ScanStep

SpecScan == InitScan /\ [][NextScan]_vars

\* the names of the module records of a scan
ScannedNames == {modules[i].name : i \in DOMAIN modules}

\* C23: after a scan, a directory whose manifest cannot be read has no
\* module record, a directory whose manifest does not evaluate to a dict has
\* no module record, and every directory with a valid manifest has one.
C23_ScannerSkipsBadManifests ==
    pc = "scanned" =>
        \A i \in DOMAIN ScanDirs :
            LET s == disk[ManifestOf(ScanDirs[i])]
            IN  /\ s = "locked" => ScanDirs[i] \notin ScannedNames
                /\ s \in {"syntax", "list"} => ScanDirs[i] \notin ScannedNames
                /\ s \in {"c1", "c2"} => ScanDirs[i] \in ScannedNames

(***************************************************************************)
(* SpecStep4: step 4 of `load` unfolded.  With the loader open,            *)
(* setup_schema runs, then clear_graph when --clear or --full was given,   *)
(* then load_organized_data batch by batch (the actions of SpecLoader).    *)
(***************************************************************************)
\* A variant of ReadyToLoad in which load_organized_data may start at once.
ReadyToLoadEarly(p, r) == p \in {"parsed", "schema", "cleared"}

\* load_organized_data is called after setup_schema and, when a clear is
\* due, after clear_graph
ReadyToLoad(p, r) ==
    IF r.clear \/ r.full THEN p = "cleared" ELSE p = "schema"

InitStep4 ==
    /\ data \in Datasets
    /\ graph \in StartGraphs
    /\ pc = "parsed"
    /\ \E full \in BOOLEAN, clear \in BOOLEAN :
          run = [NoRun EXCEPT !.full = full, !.clear = clear, !.outcome = "running"]
    /\ pool = NoPool
    /\ metrics = [nodes_created |-> 0, relationships_created |-> 0,
                  errors |-> 0, batches_processed |-> 0]
    /\ nfail = 0
    /\ LoaderIdle
    /\ IdleState

\* loader.setup_schema(): the constraints and indexes; no node, no edge
Step4Schema ==
    /\ pc = "parsed"
    /\ pc' = "schema"
    /\ UNCHANGED <<run, pool>>
    /\ UNCHANGED loaderVars
    /\ UNCHANGED stateVars

\* if clear or full: loader.clear_graph()
Step4Clear ==
    /\ pc = "schema"
    /\ run.clear \/ run.full
    /\ graph' = ClearGraph(graph)
    /\ pc' = "cleared"
    /\ UNCHANGED <<run, pool>>
    /\ UNCHANGED <<data, pos, lpc, loadNo, metrics, log, snap, nfail>>
    /\ UNCHANGED stateVars

\* loader.load_organized_data(organized_data), once
Step4Start == ReadyToLoad(pc, run) /\ loadNo = 0 /\ StartLoad

NextStep4 == Step4Schema \/ Step4Clear \/ Step4Start \/ BatchCommit \/ BatchFail

SpecStep4 == InitStep4 /\ [][NextStep4]_vars

\* the batches logged so far are in sub-step order
LogInSubStepOrder == \A i \in DOMAIN log : \A j \in DOMAIN log : i < j => log[i].k <= log[j].k

\* a relationship batch is logged only when every node batch was attempted
NodesBeforeEdges ==
    (\E i \in DOMAIN log : log[i].k >= 5) => \A k \in 1..4 : AttemptedInOrder(k)

\* C24: within one load the batches are issued in the order of the thirteen
\* sub-steps, no relationship batch before the last node batch was
\* attempted; load_organized_data starts only after setup_schema and after
\* the clear when one is due; and once it has started no node and no edge
\* is deleted.
C24_FixedOrder ==
    /\ [](LogInSubStepOrder /\ NodesBeforeEdges)
    /\ [](lpc /= "idle" => ReadyToLoad(pc, run))
    /\ [][lpc /= "idle" => Preserved(graph, graph')]_vars

\* a load that followed a clear of a non-empty graph has ended with
\* batches of Phase 1 and of Phase 2 in its log
C24_Witness ==
    /\ LoadDone
    /\ pc = "cleared"
    /\ snap.start = EmptyGraph
    /\ \E i \in DOMAIN log : log[i].k = 4
    /\ \E i \in DOMAIN log : log[i].k = 13
    /\ \E i \in DOMAIN log : log[i].k = 7 /\ ~log[i].ok

\* no two positions of the sequence hold the same record
NoRepeat(s) == \A i \in DOMAIN s : \A j \in DOMAIN s : s[i] = s[j] => i = j

\* C25: the transformer emits at most one inheritance record per (child,
\* parent) pair and at most one field-reference record per (entity name,
\* field name, related entity) tuple.
C25_RelationshipsDeduplicated ==
    pc \in {"parsed", "loaded"} =>
        /\ NoRepeat(data.model_inheritances)
        /\ NoRepeat(data.field_references)

\* the attributes string stored on the field node of row r
StoredAttributes(g, r) == g.fields[<<r.model_name, r.field_name>>].props[1].attributes

\* C26: the attributes string stored for a field is the one json.dumps
\* gives for the same key/value pairs declared in any other keyword order.
C26_AttributesKeySorted ==
    pc = "loaded" =>
        \A i \in DOMAIN data.fields :
            LET r == data.fields[i]
            IN  StoredAttributes(graph, r) = JsonDumps(r.attributes) =>
                    \A other \in Orders(r.attributes) :
                        StoredAttributes(graph, r) = JsonDumps(other)

RECURSIVE SumSizes(_)
SumSizes(lg) == IF lg = <<>> THEN 0 ELSE Head(lg).size + SumSizes(Tail(lg))

\* the summary one _batch_execute call returns, from the batches it logged
BatchSummary(lg) ==
    [processed |-> SumSizes(SelectSeq(lg, LAMBDA e : e.ok)),
     errors |-> SumSizes(SelectSeq(lg, LAMBDA e : ~e.ok))]

\* the _batch_execute call of sub-step k of the current load has returned
SubStepReturned(k) ==
    /\ loadNo > 0
    /\ Len(SubStepData(data, k)) > 0
    /\ lpc = "done" \/ (lpc = "loading" /\ pos.k > k)

\* C27: for every _batch_execute call that has returned, the batches are the
\* consecutive slices of the data, of length 1 to BATCH_SIZE, they were
\* attempted once each in input order, and processed + errors of the
\* summary is the number of items, processed being the items of the
\* committed batches and errors the items of the failed ones; and every
\* batch attempted adds exactly one to batches_processed + errors of the
\* metrics.
C27_BatchAccounting ==
    /\ [](\A k \in SubSteps : SubStepReturned(k) =>
            LET rows == SubStepData(data, k)
                n == NumBatches(Len(rows))
                lk == LogOf(k)
            IN  /\ Concat([b \in 1..n |-> BatchOf(rows, b)]) = rows
                /\ \A b \in 1..n : Len(BatchOf(rows, b)) \in 1..BATCH_SIZE
                /\ AttemptedInOrder(k)
                /\ \A b \in 1..n : lk[b].size = Len(BatchOf(rows, b))
                /\ BatchSummary(lk).processed + BatchSummary(lk).errors = Len(rows))
    /\ [][(metrics'.batches_processed + metrics'.errors)
            - (metrics.batches_processed + metrics.errors)
          = IF Len(log') = Len(log) + 1 THEN 1 ELSE 0]_vars

\* a load has ended in which a list of five items went in three batches and
\* only the last batch, of one item, failed
C27_Witness ==
    /\ LoadDone
    /\ \E k \in SubSteps :
          /\ Len(SubStepData(data, k)) = 2 * BATCH_SIZE + 1
          /\ BatchSummary(LogOf(k)) = [processed |-> 2 * BATCH_SIZE, errors |-> 1]

\* C28: for a class with no _name and exactly one _inherit entry p the
\* transformer emits an entity row named p for the class and an INHERITS
\* record whose child and parent are both p; after the load the graph holds
\* the INHERITS self-loop on p, once, and no node named after the class.
C28_InPlaceExtensionSelfLoop ==
    \A i \in InPlaceExtensions :
        LET c == disk[ModelsPy][i]
            p == c.inherit[1]
            loop == [type |-> "INHERITS", src |-> <<p>>, dst |-> <<p>>]
        IN  /\ pc \in {"parsed", "loaded"} =>
                  /\ RowsOf(data, c.class_name, p) /= {}
                  /\ \E j \in DOMAIN data.model_inheritances :
                        data.model_inheritances[j] = [child |-> p, parent |-> p]
            /\ pc = "loaded" =>
                  /\ loop \in DOMAIN graph.edges
                  /\ graph.edges[loop].n = 1
                  /\ graph.models[<<p>>].props /= <<>>
                  /\ <<c.class_name>> \notin DOMAIN graph.models

\* the load of a module whose only class is an in-place extension of 'p'
\* has ended: the graph holds one entity node
C28_Witness ==
    /\ pc = "loaded"
    /\ InPlaceExtensions = {1}
    /\ Len(disk[ModelsPy]) = 1
    /\ disk[ModelsPy][1].inherit = <<"p">>
    /\ DOMAIN graph.models = {<<"p">>}
    /\ [type |-> "INHERITS", src |-> <<"p">>, dst |-> <<"p">>] \in DOMAIN graph.edges


(***************************************************************************)
(* Removed files (SpecInc).                                                *)
(***************************************************************************)
\* the files of a module that the state holds a hash for and that are no
\* longer on disk
RemovedFiles(st, dk, path) ==
    {p \in DOMAIN dk : p[1] = path /\ dk[p] = "absent" /\ p \in DOMAIN st.files
                       /\ st.files[p] /= ""}

\* every file the module has on disk is readable and is the one hashed in the
\* state: nothing was added and nothing was modified
NothingElseChanged(st, dk, path) ==
    \A p \in DOMAIN dk :
        (p[1] = path /\ dk[p] /= "absent") =>
            /\ dk[p] \in Contents
            /\ p \in DOMAIN st.files
            /\ st.files[p] = "sha256:" \o dk[p]

\* the modules of a list whose only difference from the state is a removal
OnlyRemoved(st, dk, mods) ==
    {i \in DOMAIN mods : /\ RemovedFiles(st, dk, mods[i].path) /= {}
                         /\ NothingElseChanged(st, dk, mods[i].path)}

\* C29: a module that lost a hashed file and is otherwise unchanged is not in
\* the list detect_changed_modules returns (nor in an incremental strategy
\* computed from it), and marking modules processed, saving the state and
\* computing a strategy leave the hash entry of the removed file as it was.
C29_RemovalNotDetected ==
    /\ [](\A i \in OnlyRemoved(mem, disk, IncModules) :
            /\ \A j \in DOMAIN DetectChangedModules(mem, disk, IncModules) :
                  DetectChangedModules(mem, disk, IncModules)[j] /= IncModules[i]
            /\ (strategy.valid /\ strategy.res.reason = "incremental") =>
                  \A j \in DOMAIN strategy.res.changed_modules :
                      strategy.res.changed_modules[j] /= IncModules[i])
    /\ [][(IncMarkModuleProcessed \/ IncSaveState \/ IncStrategy) =>
            \A i \in DOMAIN IncModules :
                \A p \in RemovedFiles(mem, disk, IncModules[i].path) :
                    p \in DOMAIN mem'.files /\ mem'.files[p] = mem.files[p]]_vars

\* an incremental strategy over both modules, computed and the module then
\* marked processed, after models.py of the first module was hashed, saved and
\* removed: the module is not selected and the entry is still there
C29_Witness ==
    /\ OnlyRemoved(mem, disk, IncModules) = {1}
    /\ mem.last_update /= 0
    /\ mem.files[<<IncModules[1].path, "models.py">>] \in {"sha256:c1", "sha256:c2"}
    /\ DetectChangedModules(mem, disk, IncModules) = <<>>
    /\ stateFile /= <<>>
    /\ "torn" \notin DOMAIN stateFile[1]
    /\ <<IncModules[1].path, "models.py">> \in DOMAIN stateFile[1].files


(***************************************************************************)
(* SpecSelect: one `load` command on a tree of four modules for which a    *)
(* state file may exist.  Each module has a manifest and a models.py in    *)
(* one of two versions, m2 also a views.xml; the state file, when there    *)
(* is one, holds the hashes of the first versions, so that the modules     *)
(* selected as changed are those whose models.py is the second version.    *)
(* One of four is below the 30% threshold.  No batch fails.                *)
(***************************************************************************)
SelModules ==
    <<Mod("m1", "1.0", <<>>), Mod("m2", "1.0", <<"m1">>),
      Mod("m3", "1.0", <<"m1">>), Mod("m4", "1.0", <<>>)>>

SelFiles == {"__manifest__.py", "models.py"}

SelPaths ==
    {<<SelModules[i].path, f>> : i \in DOMAIN SelModules, f \in SelFiles}
    \cup {<<SelModules[2].path, "views.xml">>}

SelDisks ==
    {d \in [SelPaths -> Contents] : \A p \in SelPaths : p[2] /= "models.py" => d[p] = "c1"}

\* ModuleScanner.scan on this tree
SelScan(dk) ==
    SelectSeq(SelModules, LAMBDA m : GetFileHash(dk, <<m.path, "__manifest__.py">>) /= "")

\* models.py of m1, m2 and m3 declares one class named <m>.e, which in m2
\* also inherits m1.e; the second version changes the type of its field;
\* models.py of m4 declares no model class
SelClasses(dk, m) ==
    LET flds == <<Fld("name", IF dk[<<m.path, "models.py">>] = "c2" THEN "Text" ELSE "Char",
                      None, <<>>)>>
    IN  IF m.name = "m4" THEN <<>>
        ELSE <<Cls("E", "Model", m.name \o ".e",
                   IF m.name = "m2" THEN <<"m1.e">> ELSE <<>>, <<>>, FALSE, flds)>>

\* views.xml, where a module has one, declares one form view of <m>.e
SelViews(dk, m) ==
    IF <<m.path, "views.xml">> \in DOMAIN dk /\ dk[<<m.path, "views.xml">>] \in Contents
    THEN <<View(m.name \o ".v", m.name \o ".e", None, m.name)>>
    ELSE <<>>

\* what the workers return for the modules of a list, concatenated
SelParsed(dk, mods) ==
    [models |-> Concat([i \in DOMAIN mods |-> ParseModels(SelClasses(dk, mods[i]), mods[i].name)]),
     views |-> Concat([i \in DOMAIN mods |-> SelViews(dk, mods[i])])]

\* the state file a completed run over the first versions would have left
SelState ==
    [last_update |-> 1, files |-> [p \in SelPaths |-> "sha256:c1"]]

\* the graph a full load of the first versions stores
SelGraph ==
    LET dk == [p \in SelPaths |-> "c1"]
        parsed == SelParsed(dk, SelModules)
    IN  LoadOrganizedData(EmptyGraph, Organize(SelModules, parsed.models, parsed.views), {})

InitSelect ==
    /\ disk \in SelDisks
    /\ stateFile \in {<<>>, <<SelState>>}
    /\ mem = EmptyState
    /\ modules = <<>>
    /\ strategy = NoStrategy
    /\ now = 1
    /\ graph \in {EmptyGraph, SelGraph}
    /\ data = Organize(<<>>, <<>>, <<>>)
    /\ metrics = [nodes_created |-> 0, relationships_created |-> 0,
                  errors |-> 0, batches_processed |-> 0]
    /\ nfail = 0
    /\ pos = NoPos
    /\ lpc = "idle"
    /\ loadNo = 0
    /\ log = <<>>
    /\ snap = [valid |-> FALSE, prev |-> EmptyGraph, prevClean |-> FALSE,
               start |-> graph]
    /\ IdleCli

\* `load [--full] [--clear]` starts: step 1, the scan
SelCmdLoad ==
    \E full \in BOOLEAN, clear \in BOOLEAN :
        /\ pc = "off"
        /\ run.outcome = "none"
        /\ now' = now + 1
        /\ modules' = SelScan(disk)
        /\ run' = [NoRun EXCEPT !.full = full, !.clear = clear,
                                !.before = stateFile, !.outcome = "running"]
        /\ pc' = "scanned"
        /\ strategy' = NoStrategy
        /\ UNCHANGED <<disk, stateFile, mem, pool>>
        /\ UNCHANGED loaderVars

\* steps 3 and 3.5: the workers parse modules_to_process, the results are
\* collected as they complete and organized with all scanned modules
SelParse ==
    /\ pc = "planned"
    /\ \E order \in Orders(run.to_process) :
          LET parsed == SelParsed(disk, order)
          IN  data' = Organize(modules, parsed.models, parsed.views)
    /\ pc' = "parsed"
    /\ UNCHANGED <<graph, metrics, nfail, run, pool>>
    /\ UNCHANGED loaderRest
    /\ UNCHANGED stateVars

\* step 4 after setup_schema and the clear: load_organized_data, get_stats
SelLoadGraph ==
    /\ ReadyToLoad(pc, run)
    /\ graph' = LoadOrganizedData(graph, data, {})
    /\ metrics' = [nodes_created |-> 0, relationships_created |-> 0,
                   errors |-> 0,
                   batches_processed |-> Cardinality(AllBatches(data))]
    /\ run' = [run EXCEPT !.loaded = TRUE, !.wrote = (AllBatches(data) /= {})]
    /\ pc' = "loaded"
    /\ UNCHANGED <<data, nfail, pool>>
    /\ UNCHANGED loaderRest
    /\ UNCHANGED stateVars

NextSelect ==
    \/ SelCmdLoad
    \/ CmdStrategy
    \/ SelParse
    \/ Step4Schema
    \/ Step4Clear
    \/ SelLoadGraph
    \/ CmdUpdateState

SpecSelect == InitSelect /\ [][NextSelect]_vars

\* the command runs with --clear and without --full on an existing state and
\* the strategy it computed is incremental
ClearIncremental ==
    /\ run.clear /\ ~run.full
    /\ run.before /= <<>>
    /\ strategy.valid
    /\ strategy.res.reason = "incremental"

SelectedNames == {run.to_process[i].name : i \in DOMAIN run.to_process}

DependsOnPairs(mods) ==
    UNION {{[type |-> "DEPENDS_ON", src |-> <<mods[i].name>>,
             dst |-> <<mods[i].depends[j]>>] : j \in DOMAIN mods[i].depends} :
           i \in DOMAIN mods}

============================================================================
